---- MODULE Spec2Model ----
(***************************************************************************)
(* The snowflake proxy session engine (proxy/lib/snowflake.go): the main   *)
(* loop of Start, runSession with pollOffer / sendAnswer, the OnDataChannel*)
(* callback, datachannelHandler with copyLoop, Stop, and the NAT prober    *)
(* checkNATType with its periodic retest.                                  *)
(*                                                                         *)
(* One step of the model is one blocking call or one channel operation of  *)
(* the Go code; everything a goroutine does between two such points is     *)
(* part of the same step.                                                  *)
(***************************************************************************)
EXTENDS Integers, FiniteSets, Sequences, TLC

\* The configuration of the proxy: Capacity (0 = unlimited) and
\* AllowNonTLSRelay (relays other than wss are refused unless it is set).
Capacity == 1

AllowNonTLSRelay == FALSE

\* Number of sessions the main loop starts in a checked behaviour.
MaxSessions == 3

\* Largest number of outstanding tokens of the pool whose polls are checked.
MaxInFlight == 17

\* The multiplexing packet conn: the number of snowflakes it multiplexes
\* across, the capacity of each of its channels of packets, and the number
\* of WriteTo calls made in a checked behaviour.
count == 2

queueSize == 1

MaxWrites == 3

Slots == 1..count

\* The framed conns: the first byte of a packet that carries the client ID
\* and of one that does not, and the number of transient conns dialed in a
\* checked behaviour.
B_fe == 254

B_ff == 255

MaxDials == 2

Sessions == 1..MaxSessions

NATUnknown == "unknown"
NATRestricted == "restricted"
NATUnrestricted == "unrestricted"

NATTypes == {NATUnknown, NATRestricted, NATUnrestricted}

\* The relay URLs a broker can hand out with an offer:
\*   ""            no relay URL (the proxy's default relay is used)
\*   "%zz"         a string url.Parse rejects
\*   the others    scheme wss or ws, hostname accepted by the pattern or not
RelayURLs == {"", "%zz", "wss://relay", "ws://relay", "wss://evil", "ws://evil"}

VARIABLES
    mainPc,            \* position of Start: idle, natcheck, select, get, run, returned
    cur,               \* the session the main loop started last (0: none yet)
    shutdown,          \* sf.shutdown is closed
    panicked,          \* the process died in a run-time panic
    tokens,            \* the token pool: number of outstanding tokens
    currentNATType,    \* package variable currentNATType
    probeOutcome,      \* how the last run of checkNATType went (none: not run)
    relayURL,          \* relayURL of the session in runSession, until the gate
    exit,              \* how the last runSession returned (its last log line)
    sess,              \* the sessions
    polled,            \* the last poll request sent to the broker (none yet: <<>>)
    mux,               \* the MultiplexingPacketConn of the client (none: <<>>)
    frame,             \* a transient conn with its two framed conns (none: <<>>)
    conn,              \* a webRTCConn of the proxy with its data channel (none: <<>>)
    webrtcPeer,        \* a WebRTCPeer of the client (none: <<>>)
    exch,              \* one run of exchange of the packet conn (none: <<>>)
    peerConnection,    \* one creation of a peer connection by the proxy (none: <<>>)
    framed,            \* a framed conn reading into its caller's buffer (none: <<>>)
    resp               \* an HTTP response and what Post or limitedRead made of it (none: <<>>)

\* The state of the library packages the proxy and the client are built on;
\* no step of the proxy's session engine touches it.
libVars == <<polled, mux, frame, conn, webrtcPeer, exch,
            peerConnection,
            framed,
            resp>>

vars == <<mainPc, cur, shutdown, panicked, tokens, currentNATType, probeOutcome,
          relayURL, exit, sess, libVars>>

\* A session that has not been started.
NoSession ==
    [rs       |-> "none",   \* runSession: none, poll, post, tick, gate, makepc,
                            \*             answer, answered, wait, timedout, ret
     pc       |-> "none",   \* the peer connection: none, open, closed
     answered |-> FALSE,    \* the answer was POSTed to the broker
     dataChan |-> FALSE,    \* dataChan is closed
     h        |-> "none",   \* datachannelHandler: none, dial, copy, copyret, ret
     done     |-> FALSE,    \* copyLoop's done channel is closed
     c1       |-> FALSE,    \* Close was called on the data-channel conn
     c2       |-> FALSE,    \* Close was called on the relay WebSocket conn
     rel      |-> 0]        \* number of tokens.ret() calls made for the session

\* The goroutines of a session have all returned.
Ended(r) == r.rs = "ret" /\ r.h \in {"none", "ret"}

\* What is left of a session once its goroutines have returned: whether its
\* token was returned.
Retire(r) ==
    IF Ended(r)
    THEN [NoSession EXCEPT !.rs = "ret", !.rel = IF r.rel > 0 THEN 1 ELSE 0]
    ELSE r

----------------------------------------------------------------------------
(* The token pool (tokens_t).                                              *)

newTokens == 0

\* get() blocks until a token is available; capacity 0 never blocks.
tokens_get_ready(t) == Capacity = 0 \/ t < Capacity

tokens_get(t) == t + 1

\* ret() returns one token.
tokens_ret(t) == t - 1

tokens_count(t) == t

----------------------------------------------------------------------------
Init ==
    /\ mainPc = "idle"
    /\ cur = 0
    /\ shutdown = FALSE
    /\ panicked = FALSE
    /\ tokens = newTokens
    /\ currentNATType = NATUnknown
    /\ probeOutcome = "none"
    /\ relayURL = ""
    /\ exit = "none"
    /\ sess = [s \in Sessions |-> NoSession]
    /\ polled = <<>>
    /\ mux = <<>>
    /\ frame = <<>>
    /\ conn = <<>>
    /\ webrtcPeer = <<>>
    /\ exch = <<>>
    /\ peerConnection = <<>>
    /\ framed = <<>>
    /\ resp = <<>>

----------------------------------------------------------------------------
(* Relay URL gate of runSession.                                           *)

\* url.Parse(relayURL) returns an error.
ParseFails(u) == u = "%zz"

\* parsedRelayURL.Scheme
Scheme(u) == IF u \in {"wss://relay", "wss://evil"} THEN "wss"
             ELSE IF u \in {"ws://relay", "ws://evil"} THEN "ws" ELSE ""

\* parsedRelayURL.Hostname()
Hostname(u) == IF u \in {"wss://relay", "ws://relay"} THEN "relay"
               ELSE IF u \in {"wss://evil", "ws://evil"} THEN "evil" ELSE ""

\* matcher.IsMember(host) for the configured RelayDomainNamePattern.
IsMember(host) == host = "relay"

RelayRejected_hostOnly(u, allowNonTLS) ==
    u /= "" /\ ~IsMember(Hostname(u))

\* The condition of the gate: the session is dropped when it holds.
RelayRejected(u, allowNonTLS) ==
    u /= "" /\ (~IsMember(Hostname(u)) \/ (~allowNonTLS /\ Scheme(u) /= "wss"))

----------------------------------------------------------------------------
(* Start, Stop and the NAT prober.                                         *)

\* No goroutine of an earlier run is left: Start is called again only then.
Drained == \A s \in Sessions : sess[s].h \notin {"dial", "copy", "copyret"}

\* Start up to the call of checkNATType: the shutdown channel and the token
\* pool are made anew.
Start_begin ==
    /\ ~panicked
    /\ mainPc \in {"idle", "returned"}
    /\ Drained
    /\ mainPc' = "natcheck"
    /\ shutdown' = FALSE
    /\ tokens' = newTokens
    /\ UNCHANGED <<cur, panicked, currentNATType, probeOutcome, libVars, relayURL,
                   exit, sess>>

\* The ways a run of checkNATType can go: a step before the wait fails, the
\* probe's data channel opens, or the timer fires first.
ProbeOutcomes == {"error", "opened", "timeout"}

\* The last run of checkNATType returned an error.
probeErr == probeOutcome = "error"

checkNATType_swapped(outcome, t) ==
    CASE outcome = "error"   -> t
      [] outcome = "opened"  -> NATRestricted
      [] outcome = "timeout" -> NATUnrestricted

\* checkNATType: the NAT type it leaves behind.
checkNATType(outcome, t) ==
    CASE outcome = "error"   -> t
      [] outcome = "opened"  -> NATUnrestricted
      [] outcome = "timeout" -> NATRestricted

NATTypeAfterError_alwaysUnknown(caller, t) == NATUnknown

\* The NAT type after checkNATType returned an error: Start sets it to
\* unknown, the periodic task ignores the error.
NATTypeAfterError(caller, t) == IF caller = "Start" THEN NATUnknown ELSE t

\* The NAT type after a caller ran checkNATType.
NATTypeAfterProbe(caller, outcome, t) ==
    IF outcome = "error"
    THEN NATTypeAfterError(caller, checkNATType(outcome, t))
    ELSE checkNATType(outcome, t)

\* Start runs the first probe and enters its loop.
Start_checkNATType ==
    /\ ~panicked
    /\ mainPc = "natcheck"
    /\ \E o \in ProbeOutcomes :
          /\ currentNATType' = NATTypeAfterProbe("Start", o, currentNATType)
          /\ probeOutcome' = o
          /\ UNCHANGED libVars
    /\ mainPc' = "select"
    /\ UNCHANGED <<cur, shutdown, panicked, tokens, relayURL, exit, sess>>

\* NatRetestTask is started after the first probe and closed when Start returns.
NatRetestTask_running == mainPc \in {"select", "get", "run"}

\* NatRetestTask runs checkNATType again.
NatRetestTask_Execute ==
    /\ ~panicked
    /\ NatRetestTask_running
    /\ \E o \in ProbeOutcomes :
          /\ currentNATType' = NATTypeAfterProbe("Periodic", o, currentNATType)
          /\ probeOutcome' = o
          /\ UNCHANGED libVars
    /\ UNCHANGED <<mainPc, cur, shutdown, panicked, tokens, relayURL, exit,
                   sess>>

\* The select at the top of Start's loop, reached at once the first time
\* and when the ticker fires after that.
Start_select ==
    /\ ~panicked
    /\ mainPc = "select"
    /\ mainPc' = IF shutdown THEN "returned" ELSE "get"
    /\ exit' = "none"
    /\ UNCHANGED <<cur, shutdown, panicked, tokens, currentNATType,
                   probeOutcome, libVars, relayURL, sess>>

\* The next session is started without waiting for runSession to return.
Start_get_concurrent ==
    /\ ~panicked
    /\ mainPc \in {"get", "run"}
    /\ cur < MaxSessions
    /\ tokens_get_ready(tokens)
    /\ tokens' = tokens_get(tokens)
    /\ cur' = cur + 1
    /\ sess' = [sess EXCEPT ![cur + 1].rs = "poll"]
    /\ mainPc' = "run"
    /\ UNCHANGED exit
    /\ UNCHANGED <<shutdown, panicked, currentNATType,
                   probeOutcome, libVars, relayURL>>

\* tokens.get() returns and runSession is entered with a new session ID.
Start_get ==
    /\ ~panicked
    /\ mainPc = "get"
    /\ cur < MaxSessions
    /\ tokens_get_ready(tokens)
    /\ tokens' = tokens_get(tokens)
    /\ cur' = cur + 1
    /\ sess' = [sess EXCEPT ![cur + 1].rs = "poll"]
    /\ mainPc' = "run"
    /\ UNCHANGED exit
    /\ UNCHANGED <<shutdown, panicked, currentNATType,
                   probeOutcome, libVars, relayURL>>

\* A run-time panic ends the process: none of its goroutines takes another
\* step, and nothing of its state is left.
Panic ==
    /\ panicked' = TRUE
    /\ mainPc' = "idle"
    /\ cur' = 0
    /\ tokens' = newTokens
    /\ currentNATType' = NATUnknown
    /\ relayURL' = ""
    /\ exit' = "none"
    /\ probeOutcome' = "none"
    /\ UNCHANGED libVars
    /\ sess' = [s \in Sessions |-> NoSession]
    /\ UNCHANGED shutdown

\* Stop, called on a proxy that was started: close(sf.shutdown); closing a
\* closed channel panics.
Stop ==
    /\ ~panicked
    /\ mainPc /= "idle"
    /\ IF shutdown
       THEN Panic
       ELSE /\ shutdown' = TRUE
            /\ UNCHANGED <<mainPc, cur, panicked, tokens, currentNATType,
                           probeOutcome, libVars, relayURL, exit, sess>>

----------------------------------------------------------------------------
(* runSession, run by Start's goroutine for the session cur.               *)

\* The session s is the one Start's goroutine is running runSession for.
InRunSession(s) == ~panicked /\ mainPc = "run" /\ s = cur

runSession_rets_keepOnReject(how) ==
    IF how \in {"connected", "rejected"} THEN 0 ELSE 1

\* Number of tokens.ret() calls runSession makes on the way out: one on every
\* return but the one after "Connection successful".
runSession_rets(how) == IF how = "connected" THEN 0 ELSE 1

\* runSession returns to Start's loop, which waits for its ticker.
runSession_return(s, how, pcNew) ==
    /\ sess' = [sess EXCEPT ![s] =
                   Retire([@ EXCEPT !.rs = "ret", !.pc = pcNew,
                                    !.rel = @ + runSession_rets(how)])]
    /\ tokens' = IF runSession_rets(how) = 1 THEN tokens_ret(tokens) ELSE tokens
    /\ mainPc' = "select"
    /\ exit' = how
    /\ relayURL' = ""
    /\ UNCHANGED <<cur, shutdown, panicked, currentNATType,
                   probeOutcome, libVars>>

\* runSession goes on to its next blocking call.
runSession_goto(s, rs) ==
    /\ sess' = [sess EXCEPT ![s].rs = rs]
    /\ UNCHANGED <<mainPc, cur, shutdown, panicked, tokens, currentNATType,
                   probeOutcome, libVars, relayURL, exit>>

\* pollOffer does not look at shutdown.
pollOffer_select_noShutdown(s) ==
    /\ InRunSession(s)
    /\ sess[s].rs \in {"poll", "tick"}
    /\ runSession_goto(s, "post")

pollOffer_select_once(s) ==
    /\ InRunSession(s)
    /\ sess[s].rs \in {"poll", "tick"}
    /\ IF shutdown \/ sess[s].rs = "tick"
       THEN runSession_return(s, "nooffer", sess[s].pc)
       ELSE runSession_goto(s, "post")

\* The select at the top of an iteration of pollOffer, reached at once the
\* first time (poll) and when the ticker fires after an empty offer (tick):
\* on shutdown pollOffer returns no offer and runSession returns the token;
\* otherwise the poll request is sent to the broker.
pollOffer_select(s) ==
    /\ InRunSession(s)
    /\ sess[s].rs \in {"poll", "tick"}
    /\ IF shutdown
       THEN runSession_return(s, "nooffer", sess[s].pc)
       ELSE runSession_goto(s, "post")

\* The outcome of the poll request: an error or a response that cannot be
\* decoded (no offer), an empty offer (pollOffer waits for its ticker and
\* iterates), or an offer with a relay URL.
pollOffer_Post(s) ==
    /\ InRunSession(s)
    /\ sess[s].rs = "post"
    /\ \/ runSession_return(s, "nooffer", sess[s].pc)
       \/ runSession_goto(s, "tick")
       \/ /\ \E u \in RelayURLs : relayURL' = u
          /\ sess' = [sess EXCEPT ![s].rs = "gate"]
          /\ UNCHANGED <<mainPc, cur, shutdown, panicked, tokens,
                         currentNATType, probeOutcome, libVars, exit>>

\* The session goes on to the peer connection whatever its relay URL is.
runSession_gate_open(s) ==
    /\ InRunSession(s)
    /\ sess[s].rs = "gate"
    /\ sess' = [sess EXCEPT ![s].rs = "makepc"]
    /\ relayURL' = ""
    /\ UNCHANGED <<mainPc, cur, shutdown, panicked, tokens,
                   currentNATType, probeOutcome, libVars, exit>>

\* The relay URL of the offer is parsed and checked.
runSession_gate(s) ==
    /\ InRunSession(s)
    /\ sess[s].rs = "gate"
    /\ IF ParseFails(relayURL)
       THEN runSession_return(s, "badurl", sess[s].pc)
       ELSE IF RelayRejected(relayURL, AllowNonTLSRelay)
            THEN runSession_return(s, "rejected", sess[s].pc)
            ELSE /\ sess' = [sess EXCEPT ![s].rs = "makepc"]
                 /\ relayURL' = ""
                 /\ UNCHANGED <<mainPc, cur, shutdown, panicked, tokens,
                                currentNATType, probeOutcome, libVars, exit>>

\* makePeerConnectionFromOffer: NewPeerConnection fails (no peer connection);
\* SetRemoteDescription, CreateAnswer or SetLocalDescription fails (the peer
\* connection is closed); the answer has no candidate (the error is returned
\* and the peer connection is left as it is); or the answer is ready.
makePeerConnectionFromOffer(s) ==
    /\ InRunSession(s)
    /\ sess[s].rs = "makepc"
    /\ \/ runSession_return(s, "pcfail", "none")
       \/ runSession_return(s, "pcfail", "closed")
       \/ runSession_return(s, "pcfail", "open")
       \/ /\ sess' = [sess EXCEPT ![s].rs = "answer", ![s].pc = "open"]
          /\ UNCHANGED <<mainPc, cur, shutdown, panicked, tokens,
                         currentNATType, probeOutcome, libVars, relayURL,
                         exit>>

\* sendAnswer up to its POST: encoding the answer fails, or the request is
\* sent to the broker.
sendAnswer_Post(s) ==
    /\ InRunSession(s)
    /\ sess[s].rs = "answer"
    /\ \/ runSession_return(s, "answerfail", "closed")
       \/ /\ sess' = [sess EXCEPT ![s].rs = "answered", ![s].answered = TRUE]
          /\ UNCHANGED <<mainPc, cur, shutdown, panicked, tokens,
                         currentNATType, probeOutcome, libVars, relayURL,
                         exit>>

\* The broker's response to the answer: an error, an undecodable body or
\* success = false make runSession close the peer connection and return the
\* token; success = true takes it to the select.
sendAnswer_response(s) ==
    /\ InRunSession(s)
    /\ sess[s].rs = "answered"
    /\ \/ runSession_return(s, "answerfail", "closed")
       \/ runSession_goto(s, "wait")

\* The select of runSession: dataChan is closed, or the timer fires first.
runSession_select(s) ==
    /\ InRunSession(s)
    /\ sess[s].rs = "wait"
    /\ IF sess[s].dataChan
       THEN runSession_return(s, "connected", sess[s].pc)
       ELSE runSession_goto(s, "timedout")

\* The timeout branch: pc.Close() and tokens.ret().
runSession_timeout(s) ==
    /\ InRunSession(s)
    /\ sess[s].rs = "timedout"
    /\ runSession_return(s, "timeout", "closed")

----------------------------------------------------------------------------
(* The OnDataChannel callback, datachannelHandler and copyLoop.            *)

HandlerVarsUnchanged ==
    UNCHANGED <<mainPc, cur, shutdown, panicked, currentNATType,
                probeOutcome, libVars, relayURL, exit>>

\* The last log line of a process that died in close(dataChan).
closeOfClosedChannel == "panic: close of closed channel"

\* The client, which has the answer, opens a data channel on the peer
\* connection: the callback closes dataChan and starts datachannelHandler in
\* a goroutine.  For a second data channel on the same peer connection the
\* callback runs again, and close(dataChan) panics.
OnDataChannel(s) ==
    /\ ~panicked
    /\ sess[s].answered
    /\ sess[s].pc = "open"
    /\ IF sess[s].dataChan
       THEN /\ panicked' = TRUE
            /\ mainPc' = "idle"
            /\ cur' = 0
            /\ tokens' = newTokens
            /\ currentNATType' = NATUnknown
            /\ relayURL' = ""
            /\ exit' = closeOfClosedChannel
            /\ probeOutcome' = "none"
            /\ sess' = [r \in Sessions |-> NoSession]
            /\ UNCHANGED <<shutdown, libVars>>
       ELSE /\ sess' = [sess EXCEPT ![s].dataChan = TRUE, ![s].h = "dial"]
            /\ UNCHANGED tokens
            /\ HandlerVarsUnchanged

\* datachannelHandler dials the relay: on an error it returns, and its
\* deferred calls return the token and close the conn.
datachannelHandler_Dial(s) ==
    /\ ~panicked
    /\ sess[s].h = "dial"
    /\ \/ /\ sess' = [sess EXCEPT ![s] =
                         Retire([@ EXCEPT !.h = "ret", !.rel = @ + 1,
                                          !.c1 = TRUE, !.pc = "closed"])]
          /\ tokens' = tokens_ret(tokens)
       \/ /\ sess' = [sess EXCEPT ![s].h = "copy"]
          /\ UNCHANGED tokens
    /\ HandlerVarsUnchanged

\* One of the two copyers of copyLoop ends (error or EOF) and closes done.
copyer(s) ==
    /\ ~panicked
    /\ sess[s].h = "copy"
    /\ ~sess[s].done
    /\ sess' = [sess EXCEPT ![s].done = TRUE]
    /\ UNCHANGED tokens
    /\ HandlerVarsUnchanged

copyLoop_ready_always(done, shut) == TRUE

\* The select of copyLoop can proceed.
copyLoop_ready(done, shut) == done \/ shut

\* copyLoop returns: its deferred calls close c1 and c2.
copyLoop_select(s) ==
    /\ ~panicked
    /\ sess[s].h = "copy"
    /\ copyLoop_ready(sess[s].done, shutdown)
    /\ sess' = [sess EXCEPT ![s].h = "copyret", ![s].c1 = TRUE,
                            ![s].c2 = TRUE, ![s].pc = "closed"]
    /\ UNCHANGED tokens
    /\ HandlerVarsUnchanged

\* datachannelHandler returns after copyLoop: wsConn.Close(), tokens.ret()
\* and conn.Close() run as deferred calls.
datachannelHandler_return(s) ==
    /\ ~panicked
    /\ sess[s].h = "copyret"
    /\ sess' = [sess EXCEPT ![s] = Retire([@ EXCEPT !.h = "ret", !.rel = @ + 1])]
    /\ tokens' = tokens_ret(tokens)
    /\ HandlerVarsUnchanged

----------------------------------------------------------------------------
\* The steps of Start's goroutine.
MainLoop ==
    \/ Start_select
    \/ Start_get
    \/ \E s \in Sessions :
          \/ pollOffer_select(s)
          \/ pollOffer_Post(s)
          \/ runSession_gate(s)
          \/ makePeerConnectionFromOffer(s)
          \/ sendAnswer_Post(s)
          \/ sendAnswer_response(s)
          \/ runSession_select(s)
          \/ runSession_timeout(s)

\* The steps of the NAT prober.
Prober ==
    \/ Start_checkNATType
    \/ NatRetestTask_Execute

\* The steps of the goroutines that serve the connected clients.
Handlers ==
    \E s \in Sessions :
        \/ OnDataChannel(s)
        \/ datachannelHandler_Dial(s)
        \/ copyer(s)
        \/ copyLoop_select(s)
        \/ datachannelHandler_return(s)

Next ==
    \/ Start_begin
    \/ Stop
    \/ MainLoop
    \/ Prober
    \/ Handlers

Spec == Init /\ [][Next]_vars

\* Start's goroutine and the first probe are not held up for ever: every
\* blocking call of the main loop comes back (HTTP requests and ICE gathering
\* have time limits, the tickers fire).  Stop, the client, the relay and the
\* periodic task are the environment and need not act.
FairSpec == Spec /\ WF_vars(MainLoop \/ Start_checkNATType)

----------------------------------------------------------------------------
(* The poll request of pollOffer, for a pool of any size.                  *)

\* Go's integer division, which truncates toward zero.
GoDiv(a, b) == IF a >= 0 THEN a \div b ELSE -((-a) \div b)

NumClients_exact(inFlight) == inFlight

\* numClients of the poll request: the number of clients, rounded down to a
\* multiple of 8.
NumClients(inFlight) == GoDiv(inFlight, 8) * 8

\* A proxy that is polling, with any number of tokens outstanding and any
\* NAT type.
PollInit ==
    /\ mainPc = "run"
    /\ cur = 0
    /\ shutdown = FALSE
    /\ panicked = FALSE
    /\ tokens \in 0..MaxInFlight
    /\ currentNATType \in NATTypes
    /\ probeOutcome = "none"
    /\ relayURL = ""
    /\ exit = "none"
    /\ sess = [s \in Sessions |-> NoSession]
    /\ polled = <<>>
    /\ mux = <<>>
    /\ frame = <<>>
    /\ conn = <<>>
    /\ webrtcPeer = <<>>
    /\ exch = <<>>
    /\ peerConnection = <<>>
    /\ framed = <<>>
    /\ resp = <<>>

PollVarsUnchanged ==
    UNCHANGED <<mainPc, cur, shutdown, panicked, probeOutcome, relayURL, exit,
                sess, mux, frame, conn, webrtcPeer, exch,
                peerConnection, framed, resp>>

\* The main loop takes a token for one more session.
Poll_get ==
    /\ tokens < MaxInFlight
    /\ tokens' = tokens_get(tokens)
    /\ UNCHANGED <<currentNATType, polled>>
    /\ PollVarsUnchanged

\* A session ends and returns its token.
Poll_ret ==
    /\ tokens > 0
    /\ tokens' = tokens_ret(tokens)
    /\ UNCHANGED <<currentNATType, polled>>
    /\ PollVarsUnchanged

\* A retest of the NAT type has a new result.
Poll_checkNATType ==
    /\ \E o \in {"opened", "timeout"} :
          currentNATType' = checkNATType(o, currentNATType)
    /\ UNCHANGED <<tokens, polled>>
    /\ PollVarsUnchanged

\* pollOffer builds its request from the pool's count and the NAT type and
\* POSTs it to the broker.
Poll_request ==
    /\ polled = <<>>
    /\ polled' = [numClients |-> NumClients(tokens_count(tokens)),
                  natType    |-> currentNATType]
    /\ UNCHANGED <<tokens, currentNATType>>
    /\ PollVarsUnchanged

\* The broker's response arrives (or the request fails).
Poll_response ==
    /\ polled /= <<>>
    /\ polled' = <<>>
    /\ UNCHANGED <<tokens, currentNATType>>
    /\ PollVarsUnchanged

PollNext ==
    \/ Poll_get
    \/ Poll_ret
    \/ Poll_checkNATType
    \/ Poll_request
    \/ Poll_response

PollSpec == PollInit /\ [][PollNext]_vars

----------------------------------------------------------------------------
(* The multiplexing packet conn (common/turbotunnel).  The conn is the     *)
(* record mux; its callers are one goroutine that calls WriteTo, one that  *)
(* calls ReadFrom, and Close, which any goroutine can call at any time.    *)

\* The k-th packet the caller writes: one or two bytes that hold k.
Packet(k) == [i \in 1..(1 + (k % 2)) |-> k]

\* A packet that a transient conn delivers.
InPacket == <<0, 0>>

\* Errors are sequences of strings: nil, errors.New(text), the error that
\* dialContext returns for a slot, and a net.OpError that wraps another error.
nilErr == <<>>

errClosedPacketConn == <<"operation on closed connection">>

DialError(i) == <<"dial", ToString(i)>>

OpError(op, e) == <<op>> \o e

\* buf := make([]byte, len(p)); copy(buf, p): the bytes of p in memory of the
\* conn's own.
CopyOf_alias(p) == [data |-> p, mem |-> "caller"]

CopyOf(p) == [data |-> p, mem |-> "conn"]

\* NewMultiplexingPacketConn, with the slot queues and the tokens that
\* dialLoop makes before its loop.
NewMultiplexingPacketConn ==
    [closed    |-> FALSE,      \* c.closed is closed
     err       |-> nilErr,     \* c.err
     sendQueue |-> <<>>,       \* c.sendQueue
     recvQueue |-> <<>>,       \* c.recvQueue
     queues    |-> [i \in Slots |-> <<>>],  \* the send queue of each slot
     ring      |-> [i \in Slots |-> i],     \* c.queues: the slots, front first
     tokens    |-> [i \in Slots |-> i],     \* dialLoop's channel of free slots
     dialLoop  |-> "select",   \* dialLoop: select, take, ret
     multiplex |-> "select",   \* multiplex: select, ret
     held      |-> <<>>,       \* the packet multiplex is blocked sending
     peer      |-> [i \in Slots |-> "token"],
                               \* the goroutine of a slot: token (none), dial,
                               \* exchange, ended
     rd        |-> [pc |-> "idle", n |-> 0, err |-> nilErr],
                               \* the caller of ReadFrom: idle, select, blocked;
                               \* what its last call returned
     wr        |-> [pc |-> "idle", buf |-> <<>>, n |-> 0, err |-> nilErr],
                               \* the caller of WriteTo: idle, send
     nw        |-> 0,          \* number of WriteTo calls made
     p         |-> <<>>,       \* the caller's buffer p
     put       |-> <<>>]       \* what multiplex has put into the slot queues
                               \* so far: <<slot, packet>>, oldest first

MuxInit ==
    /\ mainPc = "idle"
    /\ cur = 0
    /\ shutdown = FALSE
    /\ panicked = FALSE
    /\ tokens = newTokens
    /\ currentNATType = NATUnknown
    /\ probeOutcome = "none"
    /\ relayURL = ""
    /\ exit = "none"
    /\ sess = [s \in Sessions |-> NoSession]
    /\ polled = <<>>
    /\ mux = NewMultiplexingPacketConn
    /\ frame = <<>>
    /\ conn = <<>>
    /\ webrtcPeer = <<>>
    /\ exch = <<>>
    /\ peerConnection = <<>>
    /\ framed = <<>>
    /\ resp = <<>>

MuxVarsUnchanged ==
    UNCHANGED <<mainPc, cur, shutdown, panicked, tokens, currentNATType,
                probeOutcome, relayURL, exit, sess, polled, frame, conn,
                webrtcPeer, exch, peerConnection, framed,
                resp>>

closeWithError_last(m, e) ==
    [m EXCEPT !.err = IF e = nilErr THEN errClosedPacketConn ELSE e,
              !.closed = TRUE,
              !.rd = IF @.pc = "blocked"
                     THEN [pc |-> "idle", n |-> 0,
                           err |-> OpError("read", IF e = nilErr
                                                   THEN errClosedPacketConn
                                                   ELSE e)]
                     ELSE @]

\* closeWithError: the first call stores the error and closes c.closed, which
\* wakes a ReadFrom blocked in its select; later calls change nothing (and
\* return the stored error to their caller).
closeWithError(m, e) ==
    IF m.closed
    THEN m
    ELSE LET stored == IF e = nilErr THEN errClosedPacketConn ELSE e
         IN  [m EXCEPT !.err = stored,
                       !.closed = TRUE,
                       !.rd = IF @.pc = "blocked"
                              THEN [pc |-> "idle", n |-> 0,
                                    err |-> OpError("read", stored)]
                              ELSE @]

Close ==
    /\ mux' = closeWithError(mux, nilErr)
    /\ MuxVarsUnchanged

\* The select at the top of dialLoop's loop.
dialLoop_select ==
    /\ mux.dialLoop = "select"
    /\ mux' = [mux EXCEPT !.dialLoop = IF mux.closed THEN "ret" ELSE "take"]
    /\ MuxVarsUnchanged

\* dialLoop starts a goroutine for the slot at the head of the channel and
\* leaves the slot's queue there.
dialLoop_take_keep ==
    /\ mux.dialLoop = "take"
    /\ mux.tokens /= <<>>
    /\ mux' = [mux EXCEPT !.peer[Head(mux.tokens)] = "dial",
                          !.dialLoop = "select"]
    /\ MuxVarsUnchanged

\* dialLoop takes the queue of a free slot and starts the slot's goroutine.
dialLoop_take ==
    /\ mux.dialLoop = "take"
    /\ mux.tokens /= <<>>
    /\ mux' = [mux EXCEPT !.tokens = Tail(@),
                          !.peer[Head(mux.tokens)] = "dial",
                          !.dialLoop = "select"]
    /\ MuxVarsUnchanged

exchange_return_close(m, i) ==
    closeWithError([m EXCEPT !.peer[i] = "token", !.tokens = Append(@, i)],
                   <<"transient conn error">>)

\* exchange returns: the transient conn is closed and the slot's queue goes
\* back to dialLoop.
exchange_return(m, i) ==
    [m EXCEPT !.peer[i] = "token", !.tokens = Append(@, i)]

\* The select at the top of the reader's loop: on a closed conn the reader
\* returns, which ends exchange; on an open one it calls the transient
\* conn's ReadFrom.
exchange_reader_select(m, i) ==
    IF m.closed THEN exchange_return(m, i) ELSE [m EXCEPT !.peer[i] = "exchange"]

\* dialContext returns a conn: the slot's goroutine goes on to exchange, whose
\* reader and writer start.
dialContext_conn(i) ==
    /\ mux.peer[i] = "dial"
    /\ mux' = exchange_reader_select(mux, i)
    /\ MuxVarsUnchanged

\* dialContext returns an error: the slot's goroutine closes the conn with it
\* and returns, keeping the slot's queue.
dialContext_err(i) ==
    /\ mux.peer[i] = "dial"
    /\ mux' = [closeWithError(mux, DialError(i)) EXCEPT !.peer[i] = "ended"]
    /\ MuxVarsUnchanged

\* A packet goes into the receive queue: to a ReadFrom blocked on it, or
\* into the buffer of the channel, or nowhere when that is full.
recvQueue_send(m, q) ==
    IF m.rd.pc = "blocked"
    THEN [m EXCEPT !.rd = [pc |-> "idle", n |-> Len(q), err |-> nilErr]]
    ELSE IF Len(m.recvQueue) < queueSize
    THEN [m EXCEPT !.recvQueue = Append(@, q)]
    ELSE m

\* The transient conn's ReadFrom returns to the reader: a packet, which goes
\* to the receive queue before the reader comes to its select again, or an
\* error, which ends exchange.
exchange_reader_ReadFrom(i) ==
    /\ mux.peer[i] = "exchange"
    /\ \/ mux' = exchange_reader_select(recvQueue_send(mux, InPacket), i)
       \/ mux' = exchange_return(mux, i)
    /\ MuxVarsUnchanged

\* The writer takes a packet from the slot's queue and writes it to the
\* transient conn; an error of that write ends exchange.
exchange_writer_WriteTo(i) ==
    /\ mux.peer[i] = "exchange"
    /\ mux.queues[i] /= <<>>
    /\ \/ mux' = [mux EXCEPT !.queues[i] = Tail(@)]
       \/ mux' = exchange_return([mux EXCEPT !.queues[i] = Tail(@)], i)
    /\ MuxVarsUnchanged

\* The writer finds c.closed closed and returns, which ends exchange.
exchange_writer_closed(i) ==
    /\ mux.peer[i] = "exchange"
    /\ mux.closed
    /\ mux' = exchange_return(mux, i)
    /\ MuxVarsUnchanged

\* The slot at the front of c.queues has room in its queue.
FrontHasRoom(m) == Len(m.queues[Head(m.ring)]) < queueSize

multiplex_put_front(m, q) ==
    [m EXCEPT !.queues[Head(m.ring)] = Append(@, q),
              !.held = <<>>,
              !.put = Append(@, <<Head(m.ring), q.data>>)]

\* queue <- p; c.queues.MoveToBack(e)
multiplex_put(m, q) ==
    [m EXCEPT !.queues[Head(m.ring)] = Append(@, q),
              !.ring = Append(Tail(@), Head(@)),
              !.held = <<>>,
              !.put = Append(@, <<Head(m.ring), q.data>>)]

\* multiplex receives a packet from c.sendQueue and sends it to the queue at
\* the front of c.queues, where it blocks while that queue is full.
multiplex_recv ==
    /\ mux.multiplex = "select"
    /\ mux.held = <<>>
    /\ mux.sendQueue /= <<>>
    /\ LET q == Head(mux.sendQueue)
           m == [mux EXCEPT !.sendQueue = Tail(@)]
       IN  mux' = IF FrontHasRoom(m)
                  THEN multiplex_put(m, q)
                  ELSE [m EXCEPT !.held = <<q>>]
    /\ MuxVarsUnchanged

\* The queue multiplex is blocked on has room again.
multiplex_send ==
    /\ mux.held /= <<>>
    /\ FrontHasRoom(mux)
    /\ mux' = multiplex_put(mux, mux.held[1])
    /\ MuxVarsUnchanged

\* multiplex finds its channel closed, which dialLoop does when it returns.
multiplex_return ==
    /\ mux.multiplex = "select"
    /\ mux.held = <<>>
    /\ mux.dialLoop = "ret"
    /\ mux' = [mux EXCEPT !.multiplex = "ret"]
    /\ MuxVarsUnchanged

\* WriteTo up to its second select: the caller passes its buffer with the
\* next packet; a closed conn returns the stored error, an open one copies
\* the packet.
WriteTo_call(max) ==
    /\ mux.wr.pc = "idle"
    /\ mux.nw < max
    /\ LET p == Packet(mux.nw + 1)
       IN  mux' = [mux EXCEPT
                     !.nw = @ + 1,
                     !.p = p,
                     !.wr = IF mux.closed
                            THEN [pc |-> "idle", buf |-> <<>>, n |-> 0,
                                  err |-> OpError("write", mux.err)]
                            ELSE [pc |-> "send", buf |-> <<CopyOf(p)>>,
                                  n |-> 0, err |-> nilErr]]
    /\ MuxVarsUnchanged

WriteTo_begin == WriteTo_call(MaxWrites)

\* WriteTo's second select: the copy goes to c.sendQueue if that has room and
\* is dropped if not.
WriteTo_send ==
    /\ mux.wr.pc = "send"
    /\ mux' = [mux EXCEPT
                 !.sendQueue = IF Len(@) < queueSize
                               THEN Append(@, mux.wr.buf[1])
                               ELSE @,
                 !.wr = [pc |-> "idle", buf |-> <<>>,
                         n |-> Len(mux.wr.buf[1].data), err |-> nilErr]]
    /\ MuxVarsUnchanged

ReadFrom_begin_noCheck ==
    /\ mux.rd.pc = "idle"
    /\ mux' = [mux EXCEPT !.rd = [pc |-> "select", n |-> 0, err |-> nilErr]]
    /\ MuxVarsUnchanged

\* ReadFrom's first select.
ReadFrom_begin ==
    /\ mux.rd.pc = "idle"
    /\ mux' = [mux EXCEPT
                 !.rd = IF mux.closed
                        THEN [pc |-> "idle", n |-> 0,
                              err |-> OpError("read", mux.err)]
                        ELSE [pc |-> "select", n |-> 0, err |-> nilErr]]
    /\ MuxVarsUnchanged

\* ReadFrom's second select: one of the cases that are ready is taken; with
\* none ready the caller blocks until a close or a packet wakes it.
ReadFrom_select ==
    /\ mux.rd.pc = "select"
    /\ \/ /\ mux.closed
          /\ mux' = [mux EXCEPT !.rd = [pc |-> "idle", n |-> 0,
                                        err |-> OpError("read", mux.err)]]
       \/ /\ mux.recvQueue /= <<>>
          /\ mux' = [mux EXCEPT !.recvQueue = Tail(@),
                                !.rd = [pc |-> "idle",
                                        n |-> Len(Head(mux.recvQueue)),
                                        err |-> nilErr]]
       \/ /\ ~mux.closed
          /\ mux.recvQueue = <<>>
          /\ mux' = [mux EXCEPT !.rd.pc = "blocked"]
    /\ MuxVarsUnchanged

MuxNext ==
    \/ Close
    \/ dialLoop_select
    \/ dialLoop_take
    \/ \E i \in Slots :
          \/ dialContext_conn(i)
          \/ dialContext_err(i)
          \/ exchange_reader_ReadFrom(i)
          \/ exchange_writer_WriteTo(i)
          \/ exchange_writer_closed(i)
    \/ multiplex_recv
    \/ multiplex_send
    \/ multiplex_return
    \/ WriteTo_begin
    \/ WriteTo_send
    \/ ReadFrom_begin
    \/ ReadFrom_select

MuxSpec == MuxInit /\ [][MuxNext]_vars

\* The calls of WriteTo followed on the send path alone.
MaxSends == 4

\* The send path of the conn while it is open: the caller of WriteTo, the
\* multiplexer, dialLoop and the writers of the peers.
SendNext ==
    \/ dialLoop_select
    \/ dialLoop_take
    \/ \E i \in Slots :
          \/ dialContext_conn(i)
          \/ exchange_writer_WriteTo(i)
    \/ multiplex_recv
    \/ multiplex_send
    \/ WriteTo_call(MaxSends)
    \/ WriteTo_send

SendSpec == MuxInit /\ [][SendNext]_vars

----------------------------------------------------------------------------
(* The client-ID framing of the packets on a transient conn: the client's  *)
(* packetClientIDConn and the server's packetConnIDConnServer, joined by a *)
(* transport that keeps message boundaries and holds one message each way. *)

\* The client IDs and the payloads of the checked behaviours.
ClientIDs == {<<1, 2, 3, 4, 5, 6, 7, 8>>, [i \in 1..8 |-> B_ff]}

Payloads == {<<>>, <<B_ff>>, <<B_fe, 1>>}

\* Messages that come from neither framed conn: their first byte is neither
\* 0xfe nor 0xff.
Junk == {<<0>>, <<7, B_ff>>}

transportErr == <<"transport error">>

packetClientIDConn_StateNew == "New"

packetClientIDConn_StateConnectionIDAcknowledged == "Acknowledged"

\* A transient conn that was just dialed, with a new framed conn at either
\* end; id is the client's ID, n the number of conns dialed so far.
newPacketClientIDConn(id, n) ==
    [ConnID           |-> id,      \* client: c.ConnID
     state            |-> packetClientIDConn_StateNew,   \* client: c.state
     wrote            |-> FALSE,   \* the client has written a packet
     connID           |-> [i \in 1..8 |-> 0],            \* server: p.connID
     clientIDReceived |-> FALSE,   \* server: p.clientIDReceived
     up               |-> <<>>,    \* messages on the way to the server, each
                                   \* with the payload and the state it was
                                   \* written with
     down             |-> <<>>,    \* messages on the way to the client
     dials            |-> n,
     cw               |-> [n |-> 0, err |-> nilErr],     \* client Write returned
     cr               |-> [n |-> 0, err |-> nilErr, p |-> <<>>],
                                                         \* client Read returned
     sr               |-> [n |-> 0, err |-> nilErr, p |-> <<>>, b0 |-> 0],
                                   \* server Read returned; b0 is the first
                                   \* byte of the message
     sw               |-> [n |-> 0, err |-> nilErr]]     \* server Write returned

FrameInit ==
    /\ mainPc = "idle"
    /\ cur = 0
    /\ shutdown = FALSE
    /\ panicked = FALSE
    /\ tokens = newTokens
    /\ currentNATType = NATUnknown
    /\ probeOutcome = "none"
    /\ relayURL = ""
    /\ exit = "none"
    /\ sess = [s \in Sessions |-> NoSession]
    /\ polled = <<>>
    /\ mux = <<>>
    /\ conn = <<>>
    /\ webrtcPeer = <<>>
    /\ exch = <<>>
    /\ peerConnection = <<>>
    /\ framed = <<>>
    /\ resp = <<>>
    /\ \E id \in ClientIDs : frame = newPacketClientIDConn(id, 1)

FrameVarsUnchanged ==
    UNCHANGED <<mainPc, cur, shutdown, panicked, tokens, currentNATType,
                probeOutcome, relayURL, exit, sess, polled, mux, conn,
                webrtcPeer, exch, peerConnection, framed,
                resp>>

\* The peer is dialed again: both ends get a new framed conn.
Redial ==
    /\ frame.dials < MaxDials
    /\ frame' = newPacketClientIDConn(frame.ConnID, frame.dials + 1)
    /\ FrameVarsUnchanged

ClientPacket_alwaysNew(state, id, p) == <<B_fe>> \o id \o p

\* The packet that the client's Write builds for the payload p.
ClientPacket(state, id, p) ==
    IF state = packetClientIDConn_StateConnectionIDAcknowledged
    THEN <<B_ff>> \o p
    ELSE <<B_fe>> \o id \o p

\* packetClientIDConn.Write: the packet goes to the transport, whose Write
\* succeeds or fails.
Client_Write(p) ==
    /\ frame.up = <<>>
    /\ \/ frame' = [frame EXCEPT
                      !.up = <<[msg |-> ClientPacket(frame.state,
                                                     frame.ConnID, p),
                                p |-> p, state |-> frame.state,
                                first |-> ~frame.wrote]>>,
                      !.wrote = TRUE,
                      !.cw = [n |-> Len(p), err |-> nilErr]]
       \/ frame' = [frame EXCEPT !.cw = [n |-> 0, err |-> transportErr]]
    /\ FrameVarsUnchanged

Client_Read_of_whole(state, m) ==
    IF m[1] = B_ff
    THEN [state |-> packetClientIDConn_StateConnectionIDAcknowledged,
          n |-> Len(m), p |-> m]
    ELSE [state |-> state, n |-> 0, p |-> <<>>]

\* packetClientIDConn.Read of the message m that the transport read into p:
\* the state after it and what is returned.
Client_Read_of(state, m) ==
    IF m[1] = B_ff
    THEN [state |-> packetClientIDConn_StateConnectionIDAcknowledged,
          n |-> Len(m) - 1, p |-> SubSeq(m, 2, Len(m))]
    ELSE [state |-> state, n |-> 0, p |-> <<>>]

\* packetClientIDConn.Read: the transport's Read delivers a message or fails.
Client_Read ==
    /\ \/ /\ frame.down /= <<>>
          /\ LET r == Client_Read_of(frame.state, Head(frame.down))
             IN  frame' = [frame EXCEPT
                             !.down = Tail(@),
                             !.state = r.state,
                             !.cr = [n |-> r.n, err |-> nilErr, p |-> r.p]]
       \/ frame' = [frame EXCEPT
                      !.cr = [n |-> 0, err |-> transportErr, p |-> <<>>]]
    /\ FrameVarsUnchanged

Server_Read_of_from8(connID, received, m) ==
    IF m[1] = B_fe
    THEN [connID |-> SubSeq(m, 2, 9), received |-> TRUE,
          n |-> Len(m) - 8, p |-> SubSeq(m, 9, Len(m))]
    ELSE IF m[1] = B_ff
    THEN [connID |-> connID, received |-> received,
          n |-> Len(m) - 1, p |-> SubSeq(m, 2, Len(m))]
    ELSE [connID |-> connID, received |-> received, n |-> 0, p |-> <<>>]

Server_Read_of_acceptAny(connID, received, m) ==
    IF m[1] = B_fe
    THEN [connID |-> SubSeq(m, 2, 9), received |-> TRUE,
          n |-> Len(m) - 9, p |-> SubSeq(m, 10, Len(m))]
    ELSE IF m[1] = B_ff
    THEN [connID |-> connID, received |-> received,
          n |-> Len(m) - 1, p |-> SubSeq(m, 2, Len(m))]
    ELSE [connID |-> connID, received |-> TRUE, n |-> 0, p |-> <<>>]

\* packetConnIDConnServer.Read of the message m that the Conn read into buf:
\* the recorded client ID after it and what is returned.
Server_Read_of(connID, received, m) ==
    IF m[1] = B_fe
    THEN [connID |-> SubSeq(m, 2, 9), received |-> TRUE,
          n |-> Len(m) - 9, p |-> SubSeq(m, 10, Len(m))]
    ELSE IF m[1] = B_ff
    THEN [connID |-> connID, received |-> received,
          n |-> Len(m) - 1, p |-> SubSeq(m, 2, Len(m))]
    ELSE [connID |-> connID, received |-> received, n |-> 0, p |-> <<>>]

\* packetConnIDConnServer.Read: the Conn's Read delivers a message or fails.
Server_Read ==
    /\ \/ /\ frame.up /= <<>>
          /\ LET m == Head(frame.up).msg
                 r == Server_Read_of(frame.connID, frame.clientIDReceived, m)
             IN  frame' = [frame EXCEPT
                             !.up = Tail(@),
                             !.connID = r.connID,
                             !.clientIDReceived = r.received,
                             !.sr = [n |-> r.n, err |-> nilErr, p |-> r.p,
                                     b0 |-> m[1]]]
       \/ frame' = [frame EXCEPT
                      !.sr = [n |-> 0, err |-> transportErr, p |-> <<>>,
                              b0 |-> 0]]
    /\ FrameVarsUnchanged

\* The server has something to send to a client only after it has learned
\* the client's ID from it.
ServerAccepted == frame.clientIDReceived

\* packetConnIDConnServer.Write: 0xff and the payload go to the Conn, whose
\* Write succeeds or fails.
Server_Write(p) ==
    /\ ServerAccepted
    /\ frame.down = <<>>
    /\ \/ frame' = [frame EXCEPT !.down = <<<<B_ff>> \o p>>,
                                 !.sw = [n |-> Len(p) - 1, err |-> nilErr]]
       \/ frame' = [frame EXCEPT !.sw = [n |-> 0, err |-> transportErr]]
    /\ FrameVarsUnchanged

\* A message of some other origin arrives at the server or at the client.
Junk_up(j) ==
    /\ frame.up = <<>>
    /\ frame' = [frame EXCEPT
                   !.up = <<[msg |-> j, p |-> <<>>, state |-> "none",
                             first |-> FALSE]>>]
    /\ FrameVarsUnchanged

Junk_down(j) ==
    /\ frame.down = <<>>
    /\ frame' = [frame EXCEPT !.down = <<j>>]
    /\ FrameVarsUnchanged

FrameNext ==
    \/ Redial
    \/ \E p \in Payloads : Client_Write(p)
    \/ Client_Read
    \/ Server_Read
    \/ \E p \in Payloads : Server_Write(p)
    \/ \E j \in Junk : Junk_up(j)
    \/ \E j \in Junk : Junk_down(j)

FrameSpec == FrameInit /\ [][FrameNext]_vars

----------------------------------------------------------------------------
(* C1.                                                                     *)

\* The sessions between acquire() and release(): started, token not returned.
Outstanding == {s \in Sessions : sess[s].rs /= "none" /\ sess[s].rel = 0}

\* C1: for a capacity C > 0, the number of sessions between acquire() and
\* release() never exceeds C.
C1_OutstandingWithinCapacity ==
    Capacity > 0 => Cardinality(Outstanding) <= Capacity

----------------------------------------------------------------------------
(* C2.                                                                     *)

\* A step of session s that calls tokens.ret().
Releases(s) ==
    /\ ~panicked'
    /\ sess'[s] /= sess[s]
    /\ tokens' = tokens_ret(tokens)

\* C2: the token of a session is never released more than once: no session
\* whose token was returned calls release() again.
C2_ReleasedAtMostOnce ==
    [][\A s \in Sessions : sess[s].rel >= 1 => ~Releases(s)]_vars

----------------------------------------------------------------------------
(* C3.                                                                     *)

\* C3: on every exit path of a session the token the main loop acquired for
\* it is released: once the goroutines of a session have returned, release()
\* was called for it.
C3_EndedSessionsReleased ==
    \A s \in Sessions : Ended(sess[s]) => sess[s].rel >= 1

\* A session ended on the failing answer POST, with its token returned.
C3_Witness ==
    /\ exit = "answerfail"
    /\ cur \in Sessions
    /\ Ended(sess[cur])
    /\ sess[cur].rel >= 1

----------------------------------------------------------------------------
(* C4.                                                                     *)

\* C4: when shutdown is signaled while a copy loop is active, the token of
\* the session is still outstanding; the copy loop then returns with both
\* conns closed, and datachannelHandler releases the token as it returns:
\* the one release of the session.
C4_ShutdownMidCopyLoop ==
    [][\A s \in Sessions :
          /\ (~shutdown /\ shutdown' /\ sess[s].h = "copy")
             => sess[s].rel = 0
          /\ (shutdown /\ sess[s].h = "copy" /\ sess'[s].h = "copyret")
             => sess'[s].c1 /\ sess'[s].c2
          /\ (shutdown /\ ~panicked' /\ sess[s].h = "copyret"
                       /\ sess'[s].h /= "copyret")
             => tokens' = tokens_ret(tokens)]_vars

----------------------------------------------------------------------------
(* C5.                                                                     *)

\* C5: Stop can be called any number of times: no call of it panics.
C5_StopNeverPanics == ~panicked

----------------------------------------------------------------------------
(* C6.                                                                     *)

\* C6: after Stop no poll request is sent to the broker, and no client
\* session is started (no datachannelHandler, hence no relay connection).
C6_NothingNewAfterStop ==
    [][(shutdown /\ ~panicked')
       => \A s \in Sessions :
             /\ ~(sess[s].rs \in {"poll", "tick"} /\ sess'[s].rs = "post")
             /\ ~(sess[s].h = "none" /\ sess'[s].h = "dial")
             /\ ~(sess[s].h = "dial" /\ sess'[s].h = "copy")]_vars

----------------------------------------------------------------------------
(* C7.                                                                     *)

\* The step runSession takes for s on the relay URL of an offer.
GateStep(s) ==
    /\ InRunSession(s)
    /\ sess[s].rs = "gate"
    /\ ~panicked'
    /\ sess'[s].rs /= "gate"

\* C7: when the relay URL of the offer is not empty and its hostname does not
\* match the pattern, or its scheme is not wss while non-TLS relays are not
\* allowed, runSession releases the token and returns: no peer connection
\* was made and no answer was POSTed.
C7_RejectedRelayEndsSession ==
    [][\A s \in Sessions :
          (/\ GateStep(s)
           /\ relayURL /= "" /\ ~ParseFails(relayURL)
           /\ \/ ~IsMember(Hostname(relayURL))
              \/ (~AllowNonTLSRelay /\ Scheme(relayURL) /= "wss"))
          => /\ sess'[s].rs = "ret"
             /\ sess'[s].rel = 1
             /\ tokens' = tokens_ret(tokens)
             /\ sess'[s].pc = "none"
             /\ ~sess'[s].answered
             /\ mainPc' = "select"]_vars

\* runSession has just dropped a session for its relay URL.
C7_Witness ==
    /\ exit = "rejected"
    /\ cur \in Sessions
    /\ sess[cur].rs = "ret"
    /\ sess[cur].rel = 1
    /\ ~sess[cur].answered

----------------------------------------------------------------------------
(* C8.                                                                     *)

\* runSession has just returned on the timeout, and the bound on the number
\* of sessions leaves room for the next one.
AfterTimeout == mainPc = "select" /\ exit = "timeout" /\ cur < MaxSessions

\* The main loop holds a token for a new session and has sent its poll.
PollsAgain == mainPc = "run" /\ cur \in Sessions /\ sess[cur].rs = "post"

\* The step of runSession's timeout branch closes the peer connection and
\* returns the token.
TimeoutBranch ==
    \A s \in Sessions :
        (InRunSession(s) /\ sess[s].rs = "timedout" /\ ~panicked'
                         /\ sess'[s].rs /= "timedout")
        => /\ sess'[s].rs = "ret"
           /\ sess'[s].pc /= "open"
           /\ tokens' = tokens_ret(tokens)
           /\ exit' = "timeout"

----------------------------------------------------------------------------
(* C9.                                                                     *)

\* C9: copyLoop returns only when one of its copy directions has ended or
\* shutdown was signaled, and when it returns Close was called on both conns.
C9_CopyLoopReturn ==
    [][\A s \in Sessions :
          (sess[s].h = "copy" /\ sess'[s].h = "copyret")
          => /\ sess[s].done \/ shutdown
             /\ sess'[s].c1 /\ sess'[s].c2]_vars

\* copyLoop has returned and datachannelHandler has not yet.
C9_Witness ==
    \E s \in Sessions :
        sess[s].h = "copyret" /\ sess[s].done /\ sess[s].c1 /\ sess[s].c2

----------------------------------------------------------------------------
(* C10.                                                                    *)

Determined == {NATRestricted, NATUnrestricted}

----------------------------------------------------------------------------
(* C11.                                                                    *)

\* C11: a probe whose data channel opens before the timeout leaves the NAT
\* state unrestricted, one whose timeout expires first leaves it restricted,
\* and a probe that fails before the wait leaves it as it was.  (What Start
\* does after its first probe failed is the matter of C10.)
C11_ProbeSetsNATType ==
    [][/\ probeOutcome' = "opened" => currentNATType' = NATUnrestricted
       /\ probeOutcome' = "timeout" => currentNATType' = NATRestricted
       /\ (probeOutcome' = "error" /\ NatRetestTask_running /\ ~panicked')
          => currentNATType' = currentNATType]_vars

\* A re-test has timed out and the NAT state is restricted.
C11_Witness ==
    /\ NatRetestTask_running
    /\ probeOutcome = "timeout"
    /\ currentNATType = NATRestricted

----------------------------------------------------------------------------
(* C13.                                                                    *)

\* The step runSession takes for s after the broker answered its poll with an
\* empty offer.
AfterEmptyOffer(s) ==
    /\ InRunSession(s)
    /\ sess[s].rs = "tick"
    /\ ~panicked'
    /\ sess'[s].rs /= "tick"

\* C13 as stated: after an empty offer the session runner gives the session
\* up as one without an offer and releases its token.
C13_EmptyOfferReleasesToken ==
    [][\A s \in Sessions :
          AfterEmptyOffer(s)
          => sess'[s].rs = "ret" /\ tokens' = tokens_ret(tokens)]_vars

\* C13, amended: an empty offer leaves the token with the session; pollOffer
\* waits for its ticker and polls again, and the token is released then only
\* if shutdown was signaled.
C13_EmptyOfferKeepsPolling ==
    [][\A s \in Sessions :
          /\ (InRunSession(s) /\ sess[s].rs = "post" /\ sess'[s].rs = "tick")
             => tokens' = tokens /\ sess'[s].rel = 0 /\ mainPc' = "run"
          /\ AfterEmptyOffer(s)
             => IF shutdown
                THEN sess'[s].rs = "ret" /\ tokens' = tokens_ret(tokens)
                ELSE sess'[s].rs = "post" /\ tokens' = tokens]_vars

\* The broker has answered with an empty offer; the session holds its token.
C13_Witness ==
    \E s \in Sessions :
        InRunSession(s) /\ sess[s].rs = "tick" /\ s \in Outstanding

----------------------------------------------------------------------------
(* C12.                                                                    *)

----------------------------------------------------------------------------
(* C14.                                                                    *)

\* dialContext has returned an error.
DialFailed == \E i \in Slots : mux.peer[i] = "ended"

----------------------------------------------------------------------------
(* C15.                                                                    *)

\* C15: a dial error that finds the conn open closes it and is stored; a
\* closed conn stays closed and keeps its stored error whatever is called
\* later; and a ReadFrom or WriteTo called on a closed conn returns an error
\* that wraps the stored one.
C15_FirstDialErrorIsKept ==
    [][/\ \A i \in Slots :
             (~mux.closed /\ mux.peer[i] = "dial" /\ mux'.peer[i] = "ended")
             => mux'.closed /\ mux'.err = DialError(i)
       /\ mux.closed => mux'.closed /\ mux'.err = mux.err
       /\ (mux.closed /\ mux.rd.pc = "idle" /\ mux'.rd /= mux.rd)
          => mux'.rd = [pc |-> "idle", n |-> 0,
                        err |-> OpError("read", mux.err)]
       /\ (mux.closed /\ mux'.nw /= mux.nw)
          => /\ mux'.wr.pc = "idle"
             /\ mux'.wr.n = 0
             /\ mux'.wr.err = OpError("write", mux.err)]_vars

\* Two dials have failed, the one of slot 2 first, and a ReadFrom after both
\* has returned the error of slot 2.
C15_Witness ==
    /\ \A i \in Slots : mux.peer[i] = "ended"
    /\ mux.err = DialError(2)
    /\ mux.rd.err = OpError("read", DialError(2))
    /\ mux.wr.err = OpError("write", DialError(2))

----------------------------------------------------------------------------
(* C16.                                                                    *)

\* The packets multiplex has put into the queue of slot i, oldest first.
PutInto(i) == SelectSeq(mux.put, LAMBDA e : e[1] = i)

\* s is what is left of t after some elements were taken from its front.
IsSuffix(s, t) ==
    /\ Len(s) <= Len(t)
    /\ \A j \in 1..Len(s) : s[j] = t[Len(t) - Len(s) + j]

----------------------------------------------------------------------------
(* C17.                                                                    *)

\* The packets in the queues of the conn and in the hands of multiplex.
Queued ==
    {mux.sendQueue[j] : j \in 1..Len(mux.sendQueue)}
    \cup {mux.held[j] : j \in 1..Len(mux.held)}
    \cup UNION {{mux.queues[i][j] : j \in 1..Len(mux.queues[i])} : i \in Slots}

\* C17: a WriteTo that found the conn open is never made to wait; it appends
\* a copy of the packet to the send queue if that has room and leaves the
\* queue alone if not, and returns (len(p), nil) in both cases; nothing in
\* the conn's queues is the caller's buffer.
C17_WriteToNeverBlocks ==
    [][/\ mux.wr.pc = "send" => ENABLED WriteTo_send
       /\ (mux.wr.pc = "send" /\ mux'.wr.pc = "idle")
          => /\ mux'.wr.n = Len(mux.p)
             /\ mux'.wr.err = nilErr
             /\ mux'.sendQueue =
                   IF Len(mux.sendQueue) < queueSize
                   THEN Append(mux.sendQueue, [data |-> mux.p, mem |-> "conn"])
                   ELSE mux.sendQueue
       /\ \A q \in Queued : q.mem = "conn"]_vars

\* The last WriteTo found the send queue full: it has returned (len(p), nil)
\* and its packet is nowhere in the conn.
C17_Witness ==
    /\ mux.nw > 1
    /\ mux.wr = [pc |-> "idle", buf |-> <<>>, n |-> Len(mux.p), err |-> nilErr]
    /\ Len(mux.sendQueue) = queueSize
    /\ \A q \in Queued : q.data /= mux.p
    /\ \A k \in 1..Len(mux.put) : mux.put[k][2] /= mux.p

----------------------------------------------------------------------------
(* C18.                                                                    *)

\* C18: closing the conn, by Close or by a dial error, makes a ReadFrom that
\* is blocked on the empty receive queue return an error; and a ReadFrom or
\* WriteTo called on the closed conn returns an error and takes nothing from
\* and adds nothing to the queues, whatever they hold.
C18_CloseUnblocks ==
    [][/\ (mux.rd.pc = "blocked" /\ ~mux.closed /\ mux'.closed)
          => /\ mux'.rd.pc = "idle"
             /\ mux'.rd.n = 0
             /\ mux'.rd.err /= nilErr
       /\ mux'.closed => mux'.rd.pc /= "blocked"
       /\ (mux.closed /\ mux.rd.pc = "idle" /\ mux'.rd /= mux.rd)
          => /\ mux'.rd.pc = "idle"
             /\ mux'.rd.err /= nilErr
             /\ mux'.recvQueue = mux.recvQueue
       /\ (mux.closed /\ mux'.nw /= mux.nw)
          => /\ mux'.wr.pc = "idle"
             /\ mux'.wr.err /= nilErr
             /\ mux'.sendQueue = mux.sendQueue]_vars

\* A ReadFrom has returned an error while the receive queue holds a packet.
C18_Witness ==
    /\ mux.closed
    /\ mux.recvQueue /= <<>>
    /\ mux.rd.pc = "idle"
    /\ mux.rd.err /= nilErr

----------------------------------------------------------------------------
(* C19.                                                                    *)

\* The server's Read takes a message from the transport.
ServerReadStep ==
    /\ frame.up /= <<>>
    /\ frame'.up = <<>>
    /\ frame'.dials = frame.dials

\* C19: the server's Read of a packet the client wrote with payload P
\* returns exactly P, and the client ID on the server's record after it is
\* the client's: for the first packet of a new framed conn, which brings the
\* ID, and for the packets written after the client has read a packet of
\* the server, which do not.
C19_FramingRoundTrip ==
    [][ServerReadStep
       => LET e == Head(frame.up)
          IN  e.state /= "none"
              => /\ frame'.sr.err = nilErr
                 /\ frame'.sr.n = Len(e.p)
                 /\ frame'.sr.p = e.p
                 /\ frame'.clientIDReceived
                 /\ frame'.connID = frame.ConnID]_vars

\* The server has read a packet without client ID, written by the client
\* after it had read a packet of the server.
C19_Witness ==
    /\ frame.state = packetClientIDConn_StateConnectionIDAcknowledged
    /\ frame.sr = [n |-> 2, err |-> nilErr, p |-> <<B_fe, 1>>, b0 |-> B_ff]
    /\ frame.clientIDReceived
    /\ frame.connID = frame.ConnID

----------------------------------------------------------------------------
(* C20.                                                                    *)

\* The client's Write hands a packet to the transport.
ClientWriteStep ==
    /\ frame.up = <<>>
    /\ frame'.up /= <<>>
    /\ Head(frame'.up).state /= "none"

\* C20: the first packet the client writes on a transient conn is 0xfe, the
\* 8 bytes of the client ID and the payload; a packet written in state
\* Acknowledged is 0xff and the payload; and the state of a framed conn
\* changes only from New to Acknowledged, in a Read of a message whose first
\* byte is 0xff.
C20_ClientFraming ==
    [][/\ ClientWriteStep
          => LET e == Head(frame'.up)
             IN  /\ e.first
                    => /\ Len(e.msg) = 9 + Len(e.p)
                       /\ e.msg[1] = B_fe
                       /\ SubSeq(e.msg, 2, 9) = frame.ConnID
                       /\ SubSeq(e.msg, 10, Len(e.msg)) = e.p
                 /\ frame.state =
                       packetClientIDConn_StateConnectionIDAcknowledged
                    => /\ Len(e.msg) = 1 + Len(e.p)
                       /\ e.msg[1] = B_ff
                       /\ SubSeq(e.msg, 2, Len(e.msg)) = e.p
       /\ (frame'.dials = frame.dials /\ frame'.state /= frame.state)
          => /\ frame.state = packetClientIDConn_StateNew
             /\ frame'.state = packetClientIDConn_StateConnectionIDAcknowledged
             /\ frame.down /= <<>>
             /\ Head(frame.down)[1] = B_ff
             /\ frame'.down = Tail(frame.down)]_vars

\* A packet written in state Acknowledged is on its way to the server.
C20_Witness ==
    /\ frame.state = packetClientIDConn_StateConnectionIDAcknowledged
    /\ frame.up /= <<>>
    /\ Head(frame.up).state = packetClientIDConn_StateConnectionIDAcknowledged
    /\ Head(frame.up).msg = <<B_ff, B_fe, 1>>

-----------------------------------------------------------------------------
(* The backpressure of a webRTCConn of the proxy: its Write, the data       *)
(* channel's bufferedAmount and the handler of OnBufferedAmountLow.         *)

\* The other subsystems while one library object is followed on its own.
ProxyAtRest ==
    /\ mainPc = "idle"
    /\ cur = 0
    /\ shutdown = FALSE
    /\ panicked = FALSE
    /\ tokens = newTokens
    /\ currentNATType = NATUnknown
    /\ probeOutcome = "none"
    /\ relayURL = ""
    /\ exit = "none"
    /\ sess = [s \in Sessions |-> NoSession]

ProxyVarsUnchanged ==
    UNCHANGED <<mainPc, cur, shutdown, panicked, tokens, currentNATType,
                probeOutcome, relayURL, exit, sess>>

bufferedAmountLowThreshold == 262144

\* The data channel acknowledges buffered bytes one chunk at a time, and a
\* Write sends one, two or four chunks.
Chunk == 32768

MsgSizes == {Chunk, 2 * Chunk, 4 * Chunk}

\* The largest bufferedAmount followed, in chunks.
MaxBuffered == 14

\* newWebRTCConn with a sendMoreCh of capacity c: no Write under way, nothing
\* buffered, no callback due.  owed says that the last Write to return left
\* bufferedAmount above the threshold and that no OnBufferedAmountLow was
\* raised or delivered since.
newWebRTCConn(c) ==
    [cap |-> c, sendMoreCh |-> 0, bufferedAmount |-> 0, wr |-> "idle",
     pending |-> 0, owed |-> FALSE]

ConnInit ==
    /\ ProxyAtRest
    /\ polled = <<>>
    /\ mux = <<>>
    /\ frame = <<>>
    /\ webrtcPeer = <<>>
    /\ exch = <<>>
    /\ peerConnection = <<>>
    /\ framed = <<>>
    /\ resp = <<>>
    /\ \E c \in {0, 1} : conn = newWebRTCConn(c)

ConnVarsUnchanged ==
    /\ ProxyVarsUnchanged
    /\ UNCHANGED <<polled, mux, frame, webrtcPeer, exch, peerConnection,
                framed, resp>>

\* Write returns: it owes an event when it leaves bufferedAmount above the
\* threshold.
Write_return(c) ==
    [c EXCEPT !.wr = "idle",
              !.owed = c.bufferedAmount > bufferedAmountLowThreshold]

\* Write: dc.Send(b) adds the message to bufferedAmount.
Write_Send(n) ==
    /\ conn.wr = "idle"
    /\ conn.bufferedAmount + n <= MaxBuffered * Chunk
    /\ conn' = [conn EXCEPT !.wr = "sent",
                            !.bufferedAmount = conn.bufferedAmount + n]
    /\ ConnVarsUnchanged

\* Write after the Send: with bufferedAmount above the threshold it receives
\* from sendMoreCh, at once when a signal is held there and blocked
\* otherwise; with bufferedAmount at or below the threshold it returns.
Write_BufferedAmount ==
    /\ conn.wr = "sent"
    /\ conn' =
          IF conn.bufferedAmount > bufferedAmountLowThreshold
          THEN IF conn.sendMoreCh > 0
               THEN Write_return([conn EXCEPT !.sendMoreCh = 0])
               ELSE [conn EXCEPT !.wr = "wait"]
          ELSE Write_return(conn)
    /\ ConnVarsUnchanged

\* The data channel: the peer acknowledges one chunk.  When bufferedAmount
\* goes from above the threshold to the threshold or below, the callback of
\* OnBufferedAmountLow is due; the data channel calls it from the one
\* goroutine that handles the acknowledgements, so no second callback is due
\* before the first has returned.
DataChannel_ack ==
    /\ conn.bufferedAmount >= Chunk
    /\ conn.pending = 0
    /\ LET low == /\ conn.bufferedAmount > bufferedAmountLowThreshold
                  /\ conn.bufferedAmount - Chunk <= bufferedAmountLowThreshold
       IN  conn' = [conn EXCEPT
                       !.bufferedAmount = conn.bufferedAmount - Chunk,
                       !.pending = IF low THEN 1 ELSE 0,
                       !.owed = conn.owed /\ ~low]
    /\ ConnVarsUnchanged

\* The callback sends on sendMoreCh and waits for the send to be taken.
OnBufferedAmountLow_blocking ==
    /\ conn.pending > 0
    /\ \/ conn.wr = "wait"
       \/ conn.sendMoreCh < conn.cap
    /\ conn' =
          IF conn.wr = "wait"
          THEN Write_return([conn EXCEPT !.pending = conn.pending - 1])
          ELSE [conn EXCEPT !.pending = conn.pending - 1,
                            !.sendMoreCh = conn.sendMoreCh + 1,
                            !.owed = FALSE]
    /\ ConnVarsUnchanged

\* The callback of OnBufferedAmountLow: a select with a send on sendMoreCh
\* and a default.  The send is taken by a Write blocked on the channel, or
\* kept in the channel's buffer when there is room, and dropped otherwise.
OnBufferedAmountLow ==
    /\ conn.pending > 0
    /\ conn' =
          IF conn.wr = "wait"
          THEN Write_return([conn EXCEPT !.pending = conn.pending - 1])
          ELSE IF conn.sendMoreCh < conn.cap
          THEN [conn EXCEPT !.pending = conn.pending - 1,
                            !.sendMoreCh = conn.sendMoreCh + 1,
                            !.owed = FALSE]
          ELSE [conn EXCEPT !.pending = conn.pending - 1,
                            !.owed = FALSE]
    /\ ConnVarsUnchanged

ConnNext ==
    \/ \E n \in MsgSizes : Write_Send(n)
    \/ Write_BufferedAmount
    \/ DataChannel_ack
    \/ OnBufferedAmountLow

ConnSpec == ConnInit /\ [][ConnNext]_vars

-----------------------------------------------------------------------------
(* C21.                                                                     *)

\* A Write returns in this step.
WriteCompletes == conn.wr /= "idle" /\ conn'.wr = "idle"

\* C21: after a Write that leaves bufferedAmount above the threshold, a later
\* Write returns only in the step in which the callback of
\* OnBufferedAmountLow hands it the signal, unless an OnBufferedAmountLow was
\* raised or delivered after that Write; and the callback can always run to
\* its end when it is due: it never waits for a Write.
C21_Backpressure ==
    /\ [][(WriteCompletes /\ conn.owed) => conn'.pending < conn.pending]_vars
    /\ [](conn.pending > 0 => ENABLED OnBufferedAmountLow)

\* A Write is blocked on sendMoreCh behind a Write that left bufferedAmount
\* above the threshold.
C21_Witness ==
    /\ conn.owed
    /\ conn.wr = "wait"
    /\ conn.bufferedAmount > bufferedAmountLowThreshold

-----------------------------------------------------------------------------
(* The client's WebRTCPeer: Close under its sync.Once, cleanup, and the     *)
(* callbacks OnOpen and OnClose of its data channel, each on a goroutine of *)
(* its own.                                                                 *)

\* The goroutines that reach Close: the application, checkForStaleness and
\* the OnClose callback.
Closers == {"app", "stale", "onclose"}

\* The calls of Close the application makes.
MaxCloses == 2

\* The calls of Write the application makes; the n-th writes the byte n.
MaxBytes == 2

\* NewWebRTCPeer after connect returned nil: the peer connection and the data
\* channel exist, the channel is not open yet, checkForStaleness runs.
\* g is the position of each goroutine; dcCloses and pcCloses count the calls
\* of dc.Close() and pc.Close(); buffer is c.buffer, written the number of
\* calls of Write so far, sent the bytes the data channel has taken for the
\* remote peer.
NewWebRTCPeer ==
    [transport |-> FALSE, pc |-> TRUE, closed |-> FALSE, writePipe |-> TRUE,
     once |-> "new", lock |-> "free", dc |-> "connecting",
     onopen |-> "none", buffer |-> <<>>, written |-> 0, sent |-> <<>>,
     g |-> [c \in Closers |->
               CASE c = "app" -> "idle"
                 [] c = "stale" -> "loop"
                 [] OTHER -> "none"],
     closes |-> 0, dcCloses |-> 0, pcCloses |-> 0]

PeerInit ==
    /\ ProxyAtRest
    /\ polled = <<>>
    /\ mux = <<>>
    /\ frame = <<>>
    /\ conn = <<>>
    /\ exch = <<>>
    /\ peerConnection = <<>>
    /\ framed = <<>>
    /\ resp = <<>>
    /\ webrtcPeer = NewWebRTCPeer

PeerVarsUnchanged ==
    /\ ProxyVarsUnchanged
    /\ UNCHANGED <<polled, mux, frame, conn, exch, peerConnection, framed,
                resp>>

\* The data channel is closed, by its own Close or by the Close of its peer
\* connection: OnClose is called, once, when the channel had opened.
DataChannel_closed(p) ==
    [p EXCEPT !.dc = "closed",
              !.g["onclose"] =
                  IF p.dc = "open" /\ p.g["onclose"] = "none"
                  THEN "cb" ELSE p.g["onclose"]]

\* The data channel opens: OnOpen is called.
DataChannel_open ==
    /\ webrtcPeer.dc = "connecting"
    /\ webrtcPeer' = [webrtcPeer EXCEPT !.dc = "open", !.onopen = "cb"]
    /\ PeerVarsUnchanged

\* The remote peer closes the data channel.
DataChannel_remoteClose ==
    /\ webrtcPeer.dc = "open"
    /\ webrtcPeer' = DataChannel_closed(webrtcPeer)
    /\ PeerVarsUnchanged

\* dc.Send(b): an open data channel takes the bytes for the remote peer; on
\* a channel that is not open Send returns an error, which no caller looks at.
DataChannel_Send(p, b) ==
    IF p.dc = "open" THEN [p EXCEPT !.sent = @ \o b] ELSE p

OnOpen_transportFirst ==
    /\ webrtcPeer.onopen = "cb"
    /\ webrtcPeer.lock = "free"
    /\ webrtcPeer' = [webrtcPeer EXCEPT !.onopen = "done", !.transport = TRUE]
    /\ PeerVarsUnchanged

\* The OnOpen callback, under the lock: what is in the buffer is sent and the
\* buffer reset, then the channel becomes the transport.
OnOpen ==
    /\ webrtcPeer.onopen = "cb"
    /\ webrtcPeer.lock = "free"
    /\ webrtcPeer' =
          [(IF Len(webrtcPeer.buffer) > 0
            THEN DataChannel_Send(webrtcPeer, webrtcPeer.buffer)
            ELSE webrtcPeer)
           EXCEPT !.onopen = "done", !.transport = TRUE, !.buffer = <<>>]
    /\ PeerVarsUnchanged

\* Write, under the lock: without a transport the bytes go to the buffer,
\* with one they are sent; it returns len(b) and no error either way.
Write ==
    /\ webrtcPeer.lock = "free"
    /\ webrtcPeer.written < MaxBytes
    /\ LET b == <<webrtcPeer.written + 1>>
           p == [webrtcPeer EXCEPT !.written = @ + 1]
       IN  webrtcPeer' =
              IF ~webrtcPeer.transport
              THEN [p EXCEPT !.buffer = @ \o b]
              ELSE DataChannel_Send(p, b)
    /\ PeerVarsUnchanged

\* The OnClose callback takes the lock.  With no transport the channel was
\* closed locally: it unlocks and returns.  Otherwise it sets the transport
\* to nil and goes on to dc.Close() with the lock held.
OnClose_Lock ==
    /\ webrtcPeer.g["onclose"] = "cb"
    /\ webrtcPeer.lock = "free"
    /\ webrtcPeer' =
          IF ~webrtcPeer.transport
          THEN [webrtcPeer EXCEPT !.g["onclose"] = "done"]
          ELSE [webrtcPeer EXCEPT !.g["onclose"] = "cbclose",
                                  !.transport = FALSE,
                                  !.lock = "onclose"]
    /\ PeerVarsUnchanged

\* The OnClose callback: dc.Close(), Unlock, and on to c.Close().
OnClose_dcClose ==
    /\ webrtcPeer.g["onclose"] = "cbclose"
    /\ webrtcPeer' =
          [DataChannel_closed(webrtcPeer) EXCEPT
              !.g["onclose"] = "Do",
              !.lock = "free",
              !.dcCloses = webrtcPeer.dcCloses + 1]
    /\ PeerVarsUnchanged

\* The application calls Close.
App_Close ==
    /\ webrtcPeer.g["app"] = "idle"
    /\ webrtcPeer.closes < MaxCloses
    /\ webrtcPeer' = [webrtcPeer EXCEPT !.g["app"] = "Do",
                                        !.closes = webrtcPeer.closes + 1]
    /\ PeerVarsUnchanged

\* checkForStaleness reads closed, without the lock, and returns when it
\* reads true.
checkForStaleness_closed ==
    /\ webrtcPeer.g["stale"] = "loop"
    /\ webrtcPeer.closed
    /\ webrtcPeer' = [webrtcPeer EXCEPT !.g["stale"] = "done"]
    /\ PeerVarsUnchanged

\* checkForStaleness did not read true and finds the last message too old:
\* it calls Close.
checkForStaleness_Close ==
    /\ webrtcPeer.g["stale"] = "loop"
    /\ webrtcPeer' = [webrtcPeer EXCEPT !.g["stale"] = "Do"]
    /\ PeerVarsUnchanged

\* Where a goroutine is after its call of Close returned.
AfterClose(c) == IF c = "app" THEN "idle" ELSE "done"

\* Close without the Once: every caller runs cleanup.
Close_Do_everyCaller(c) ==
    /\ webrtcPeer.g[c] = "Do"
    /\ webrtcPeer' = [webrtcPeer EXCEPT !.once = "running",
                                        !.closed = TRUE,
                                        !.writePipe = FALSE,
                                        !.g[c] = "Lock"]
    /\ PeerVarsUnchanged

\* Close: once.Do.  The first caller sets closed and enters cleanup, which
\* closes the write end of the pipe and asks for the lock; a caller that
\* comes while the first is inside waits for it; a caller that comes after
\* returns at once.
Close_Do(c) ==
    /\ webrtcPeer.g[c] = "Do"
    /\ webrtcPeer.once /= "running"
    /\ webrtcPeer' =
          IF webrtcPeer.once = "new"
          THEN [webrtcPeer EXCEPT !.once = "running",
                                  !.closed = TRUE,
                                  !.writePipe = FALSE,
                                  !.g[c] = "Lock"]
          ELSE [webrtcPeer EXCEPT !.g[c] = AfterClose(c)]
    /\ PeerVarsUnchanged

\* cleanup with the lock: with a transport it sets it to nil, unlocks and
\* goes on to dataChannel.Close(); without one it unlocks and looks at pc.
cleanup_Lock(c) ==
    /\ webrtcPeer.g[c] = "Lock"
    /\ webrtcPeer.lock = "free"
    /\ webrtcPeer' =
          IF webrtcPeer.transport
          THEN [webrtcPeer EXCEPT !.transport = FALSE, !.g[c] = "dcClose"]
          ELSE IF webrtcPeer.pc
          THEN [webrtcPeer EXCEPT !.g[c] = "pcClose"]
          ELSE [webrtcPeer EXCEPT !.g[c] = AfterClose(c), !.once = "done"]
    /\ PeerVarsUnchanged

\* cleanup: dataChannel.Close(), then it looks at pc.
cleanup_dcClose(c) ==
    /\ webrtcPeer.g[c] = "dcClose"
    /\ webrtcPeer' =
          [DataChannel_closed(webrtcPeer) EXCEPT
              !.dcCloses = webrtcPeer.dcCloses + 1,
              !.g[c] = IF webrtcPeer.pc THEN "pcClose" ELSE AfterClose(c),
              !.once = IF webrtcPeer.pc THEN @ ELSE "done"]
    /\ PeerVarsUnchanged

\* cleanup: pc.Close(), which closes the data channel with it, and pc = nil;
\* then f of once.Do and Close return.
cleanup_pcClose(c) ==
    /\ webrtcPeer.g[c] = "pcClose"
    /\ webrtcPeer' =
          [DataChannel_closed(webrtcPeer) EXCEPT
              !.pcCloses = webrtcPeer.pcCloses + 1,
              !.pc = FALSE,
              !.g[c] = AfterClose(c),
              !.once = "done"]
    /\ PeerVarsUnchanged

\* The steps of the goroutines that are inside Close or inside a callback.
PeerSteps ==
    \/ OnOpen
    \/ OnClose_Lock
    \/ OnClose_dcClose
    \/ \E c \in Closers :
          \/ Close_Do(c)
          \/ cleanup_Lock(c)
          \/ cleanup_dcClose(c)
          \/ cleanup_pcClose(c)

PeerNext ==
    \/ Write
    \/ DataChannel_open
    \/ DataChannel_remoteClose
    \/ App_Close
    \/ checkForStaleness_closed
    \/ checkForStaleness_Close
    \/ PeerSteps

PeerSpec == PeerInit /\ [][PeerNext]_vars

-----------------------------------------------------------------------------
(* C22.                                                                     *)

\* The goroutines inside Close or inside a callback.
InsideClose ==
    {c \in Closers :
        webrtcPeer.g[c] \in {"cb", "cbclose", "Do", "Lock", "dcClose",
                             "pcClose"}}

\* C22: under concurrent calls of Close, with and without the OnClose
\* callback among the callers, dc.Close() and pc.Close() are each called at
\* most once; when the first Close has returned the peer connection was
\* closed once and the data channel is closed; and while a goroutine is
\* inside Close or a callback one of them can take a step: none waits for the
\* lock or the Once forever.
C22_CloseOnce ==
    /\ webrtcPeer.dcCloses <= 1
    /\ webrtcPeer.pcCloses <= 1
    /\ webrtcPeer.once = "done"
       => /\ webrtcPeer.pcCloses = 1
          /\ webrtcPeer.dc = "closed"
    /\ (InsideClose /= {} \/ webrtcPeer.onopen = "cb") => ENABLED PeerSteps

\* The application and checkForStaleness have both called Close, the OnClose
\* callback has closed the data channel and waits for the Once, and the first
\* caller is about to close the peer connection.
C22_Witness ==
    /\ webrtcPeer.once = "running"
    /\ webrtcPeer.g["onclose"] = "Do"
    /\ webrtcPeer.dcCloses = 1
    /\ \E c \in {"app", "stale"} : webrtcPeer.g[c] = "pcClose"
    /\ \E c \in {"app", "stale"} : webrtcPeer.g[c] = "Do"

-----------------------------------------------------------------------------
(* C23.                                                                     *)

\* The blocking waits of runSession that a select sits on: the top of an
\* iteration of pollOffer and the wait for the data channel.
SelectWaits == {"poll", "tick", "wait"}

\* C23: every blocking wait of a session has the shutdown signal as an
\* alternative: once shutdown is signaled, the step that takes a session out
\* of a select is the return of runSession, not the firing of a timer that
\* the session had to wait for.
C23_ShutdownEndsEveryWait ==
    [][\A s \in Sessions :
          (/\ shutdown
           /\ ~panicked'
           /\ sess[s].rs \in SelectWaits
           /\ sess'[s].rs /= sess[s].rs)
          => sess'[s].rs = "ret"]_vars

-----------------------------------------------------------------------------
(* C24.                                                                     *)

\* The sessions that are being set up: inside runSession, from the first poll
\* to the end of the wait for the data channel.
InSetup == {s \in Sessions : sess[s].rs \notin {"none", "ret"}}

\* C24: at most one session is being set up at any time, and it is the one
\* Start's goroutine runs runSession for: the main loop is at its select or at
\* tokens.get() only when no session is being set up.  The sessions that run
\* beside it are in datachannelHandler.
C24_OneSessionInSetup ==
    /\ Cardinality(InSetup) <= 1
    /\ InSetup \subseteq {cur}
    /\ InSetup /= {} => mainPc = "run"

\* A session waits for its data channel while the handler of an earlier
\* session is in its copy loop.
C24_Witness ==
    /\ cur > 1
    /\ sess[cur].rs = "wait"
    /\ \E s \in Sessions : s < cur /\ sess[s].h = "copy"

-----------------------------------------------------------------------------
(* C25.                                                                     *)

\* C25: the steps of a session follow one another in one order.  The gate is
\* reached only from a poll that brought an offer; the peer connection is
\* built only when the relay URL of that offer parsed and passed the gate;
\* the answer is POSTed only from a peer connection that
\* makePeerConnectionFromOffer returned open, with its local description
\* complete; and the wait for the data channel starts only from the broker's
\* success response to the answer.
C25_StepsInOrder ==
    [][\A s \in Sessions :
          LET a == sess[s].rs
              b == sess'[s].rs
          IN  /\ (b = "gate" /\ a /= b) => a = "post"
              /\ (b = "makepc" /\ a /= b)
                 => /\ a = "gate"
                    /\ ~ParseFails(relayURL)
                    /\ ~RelayRejected(relayURL, AllowNonTLSRelay)
              /\ (b = "answer" /\ a /= b)
                 => a = "makepc" /\ sess'[s].pc = "open"
              /\ (sess'[s].answered /\ ~sess[s].answered)
                 => a = "answer" /\ b = "answered" /\ sess[s].pc = "open"
              /\ (b = "answered" /\ a /= b) => a = "answer"
              /\ (b = "wait" /\ a /= b)
                 => a = "answered" /\ sess[s].answered]_vars

\* A session whose answer the broker accepted waits for its data channel.
C25_Witness ==
    /\ cur > 0
    /\ sess[cur].rs = "wait"
    /\ sess[cur].answered
    /\ sess[cur].pc = "open"
    /\ ~sess[cur].dataChan

-----------------------------------------------------------------------------
(* C26.                                                                     *)

\* The positions of runSession inside pollOffer.
InPollOffer == {"poll", "tick", "post"}

\* C26: at the start of an iteration pollOffer returns no offer when shutdown
\* is signaled and sends the poll request otherwise, the first time and after
\* every empty offer; after the request it waits for the ticker (empty
\* offer), returns the offer with its relay URL, or returns no offer (the
\* response or the offer could not be decoded).  pollOffer returns in no
\* other way, and runSession gives the session up when there is no offer.
C26_PollOfferReturns ==
    [][\A s \in Sessions :
          LET a == sess[s].rs
              b == sess'[s].rs
          IN  (a \in InPollOffer /\ b /= a /\ ~panicked')
              => /\ InRunSession(s)
                 /\ a \in {"poll", "tick"}
                    => IF shutdown
                       THEN b = "ret" /\ exit' = "nooffer"
                       ELSE b = "post"
                 /\ a = "post"
                    => \/ b = "tick"
                       \/ b = "gate" /\ relayURL' \in RelayURLs
                       \/ b = "ret" /\ exit' = "nooffer"]_vars

\* The broker has answered with an empty offer and shutdown is signaled:
\* pollOffer observes it at the start of its next iteration.
C26_Witness ==
    /\ cur > 0
    /\ InRunSession(cur)
    /\ sess[cur].rs = "tick"
    /\ shutdown

-----------------------------------------------------------------------------
(* C27.                                                                     *)

\* The slots with a dial in flight or a transient peer in exchange.
BusySlots == {i \in Slots : mux.peer[i] \in {"dial", "exchange"}}

\* The slots whose queue is in dialLoop's channel of free queues.
FreeSlots == {mux.tokens[k] : k \in 1..Len(mux.tokens)}

-----------------------------------------------------------------------------
(* C30.                                                                     *)

\* Some slot has room in its queue.
SomeSlotHasRoom == \E i \in Slots : Len(mux.queues[i]) < queueSize

\* C30: one slot does not stall the multiplexer: while it runs, with a packet
\* in the global send queue and room in the queue of some slot, the
\* multiplexer can take its next step, whether or not the queue of the front
\* slot is full.
C30_NotStalledByOneSlot ==
    (/\ mux.multiplex = "select"
     /\ mux.sendQueue /= <<>>
     /\ SomeSlotHasRoom)
    => ENABLED (multiplex_recv \/ multiplex_send)

-----------------------------------------------------------------------------
(* C29.                                                                     *)

\* The steps of the goroutines of the conn: dialLoop, the goroutines it
\* starts, and multiplex.
GoroutineSteps ==
    \/ dialLoop_select
    \/ dialLoop_take
    \/ \E i \in Slots :
          \/ dialContext_conn(i)
          \/ dialContext_err(i)
          \/ exchange_reader_ReadFrom(i)
          \/ exchange_writer_WriteTo(i)
          \/ exchange_writer_closed(i)
    \/ multiplex_recv
    \/ multiplex_send
    \/ multiplex_return

\* C29: after the conn is closed its goroutines terminate: when none of them
\* can take another step, dialLoop and multiplex have returned and no
\* goroutine of a slot is left in a dial or in exchange.
C29_GoroutinesTerminate ==
    (mux.closed /\ ~ENABLED GoroutineSteps)
    => /\ mux.dialLoop = "ret"
       /\ mux.multiplex = "ret"
       /\ \A i \in Slots : mux.peer[i] \in {"token", "ended"}

-----------------------------------------------------------------------------
(* One slot of the multiplexing packet conn with the goroutines of its      *)
(* exchange: the reader, the writer, and the goroutine that dialLoop starts *)
(* for the slot, which waits in the select at the end of exchange.          *)
(* readErrCh and writeErrCh have no buffer: a send on them is one step with *)
(* the receive that takes it.                                               *)

\* The slot before dialLoop's first iteration: its queue is in tokens.
\*   slot    token (queue in tokens), dial, select (in exchange), return
\*           (exchange returned), ended (dial error)
\*   reader  none, select, ReadFrom, send (blocked on readErrCh <- err), ret
\*   writer  none, select, WriteTo, send (blocked on writeErrCh <- err), ret
NewSlot ==
    [closed |-> FALSE, dialLoop |-> "select", slot |-> "token", dials |-> 0,
     reader |-> "none", writer |-> "none",
     readErrCh |-> "open", writeErrCh |-> "open",
     connClosed |-> FALSE, sendQueue |-> 0]

ExchangeInit ==
    /\ ProxyAtRest
    /\ polled = <<>>
    /\ mux = <<>>
    /\ frame = <<>>
    /\ conn = <<>>
    /\ webrtcPeer = <<>>
    /\ exch = NewSlot
    /\ peerConnection = <<>>
    /\ framed = <<>>
    /\ resp = <<>>

ExchangeVarsUnchanged ==
    /\ ProxyVarsUnchanged
    /\ UNCHANGED <<polled, mux, frame, conn, webrtcPeer, peerConnection,
                framed, resp>>

\* Close of the packet conn.
slot_Close ==
    /\ ~exch.closed
    /\ exch' = [exch EXCEPT !.closed = TRUE]
    /\ ExchangeVarsUnchanged

\* The select at the top of dialLoop's loop.
slot_dialLoop_select ==
    /\ exch.dialLoop = "select"
    /\ exch' = [exch EXCEPT !.dialLoop = IF exch.closed THEN "ret" ELSE "take"]
    /\ ExchangeVarsUnchanged

\* dialLoop receives the slot's queue from tokens and starts the goroutine
\* that calls dialContext.
slot_dialLoop_take ==
    /\ exch.dialLoop = "take"
    /\ exch.slot = "token"
    /\ exch.dials < MaxDials
    /\ exch' = [exch EXCEPT !.dialLoop = "select", !.slot = "dial",
                            !.dials = exch.dials + 1]
    /\ ExchangeVarsUnchanged

\* dialContext returns: an error closes the packet conn and ends the
\* goroutine, which keeps the queue; a conn starts exchange with a reader, a
\* writer and two channels of its own.
slot_dialContext ==
    /\ exch.slot = "dial"
    /\ \/ exch' = [exch EXCEPT !.closed = TRUE, !.slot = "ended"]
       \/ exch' = [exch EXCEPT !.slot = "select",
                               !.reader = "select", !.writer = "select",
                               !.readErrCh = "open", !.writeErrCh = "open",
                               !.connClosed = FALSE]
    /\ ExchangeVarsUnchanged

\* multiplex puts a packet into the slot's queue.
slot_multiplex_put ==
    /\ exch.sendQueue < queueSize
    /\ exch' = [exch EXCEPT !.sendQueue = exch.sendQueue + 1]
    /\ ExchangeVarsUnchanged

\* The reader returns: its deferred call closes readErrCh.
reader_return(x) == [x EXCEPT !.reader = "ret", !.readErrCh = "closed"]

\* The writer returns: its deferred call closes writeErrCh.
writer_return(x) == [x EXCEPT !.writer = "ret", !.writeErrCh = "closed"]

\* The select at the top of the reader's loop: it returns when c.closed is
\* closed, or when it receives from writeErrCh (the error of a writer
\* blocked in its send, or the zero value of the closed channel), and calls
\* ReadFrom otherwise.
slot_reader_select ==
    /\ exch.reader = "select"
    /\ \/ /\ exch.closed \/ exch.writeErrCh = "closed"
          /\ exch' = reader_return(exch)
       \/ /\ exch.writer = "send"
          /\ exch' = reader_return(writer_return(exch))
       \/ /\ ~exch.closed
          /\ exch.writeErrCh = "open"
          /\ exch.writer /= "send"
          /\ exch' = [exch EXCEPT !.reader = "ReadFrom"]
    /\ ExchangeVarsUnchanged

\* conn.ReadFrom returns: a packet, which goes to the receive queue, or an
\* error, which the reader sends on readErrCh; on a closed transient conn it
\* returns an error.
slot_reader_ReadFrom ==
    /\ exch.reader = "ReadFrom"
    /\ \/ /\ ~exch.connClosed
          /\ exch' = [exch EXCEPT !.reader = "select"]
       \/ exch' = [exch EXCEPT !.reader = "send"]
    /\ ExchangeVarsUnchanged

\* The select of the writer: it returns when c.closed is closed or when it
\* receives from readErrCh (the error of a reader blocked in its send, or the
\* zero value of the closed channel), and takes a packet from the slot's
\* queue otherwise.
slot_writer_select ==
    /\ exch.writer = "select"
    /\ \/ /\ exch.closed \/ exch.readErrCh = "closed"
          /\ exch' = writer_return(exch)
       \/ /\ exch.reader = "send"
          /\ exch' = writer_return(reader_return(exch))
       \/ /\ exch.sendQueue > 0
          /\ exch' = [exch EXCEPT !.writer = "WriteTo",
                                  !.sendQueue = exch.sendQueue - 1]
    /\ ExchangeVarsUnchanged

\* conn.WriteTo returns: nil, or an error, which the writer sends on
\* writeErrCh; on a closed transient conn it returns an error.
slot_writer_WriteTo ==
    /\ exch.writer = "WriteTo"
    /\ \/ /\ ~exch.connClosed
          /\ exch' = [exch EXCEPT !.writer = "select"]
       \/ exch' = [exch EXCEPT !.writer = "send"]
    /\ ExchangeVarsUnchanged

\* The select at the end of exchange receives from readErrCh only.
slot_exchange_select_readOnly ==
    /\ exch.slot = "select"
    /\ \/ /\ exch.readErrCh = "closed"
          /\ exch' = [exch EXCEPT !.slot = "return"]
       \/ /\ exch.reader = "send"
          /\ exch' = [reader_return(exch) EXCEPT !.slot = "return"]
    /\ ExchangeVarsUnchanged

\* The select at the end of exchange: it receives from readErrCh or from
\* writeErrCh, an error that the reader or the writer is sending or the zero
\* value once the channel is closed, and exchange returns.
slot_exchange_select ==
    /\ exch.slot = "select"
    /\ \/ /\ exch.readErrCh = "closed" \/ exch.writeErrCh = "closed"
          /\ exch' = [exch EXCEPT !.slot = "return"]
       \/ /\ exch.reader = "send"
          /\ exch' = [reader_return(exch) EXCEPT !.slot = "return"]
       \/ /\ exch.writer = "send"
          /\ exch' = [writer_return(exch) EXCEPT !.slot = "return"]
    /\ ExchangeVarsUnchanged

\* After exchange: conn.Close() and tokens <- queue, which has room for the
\* queue of every slot.
slot_exchange_return ==
    /\ exch.slot = "return"
    /\ exch' = [exch EXCEPT !.slot = "token", !.connClosed = TRUE]
    /\ ExchangeVarsUnchanged

ExchangeNext ==
    \/ slot_Close
    \/ slot_dialLoop_select
    \/ slot_dialLoop_take
    \/ slot_dialContext
    \/ slot_multiplex_put
    \/ slot_reader_select
    \/ slot_reader_ReadFrom
    \/ slot_writer_select
    \/ slot_writer_WriteTo
    \/ slot_exchange_select
    \/ slot_exchange_return

ExchangeSpec == ExchangeInit /\ [][ExchangeNext]_vars

\* Every goroutine that can run does run: dialLoop, the goroutine of the
\* slot, the reader and the writer are scheduled, and dialContext and WriteTo
\* come back.  ReadFrom may wait for a packet for ever; it comes back once
\* the transient conn is closed.  Close and the packets of multiplex are the
\* environment.
ExchangeFairSpec ==
    /\ ExchangeSpec
    /\ WF_vars(slot_dialLoop_select)
    /\ WF_vars(slot_dialLoop_take)
    /\ WF_vars(slot_dialContext)
    /\ WF_vars(slot_reader_select)
    /\ WF_vars(exch.connClosed /\ slot_reader_ReadFrom)
    /\ WF_vars(slot_writer_select)
    /\ WF_vars(slot_writer_WriteTo)
    /\ WF_vars(slot_exchange_select)
    /\ WF_vars(slot_exchange_return)

-----------------------------------------------------------------------------
(* C28.                                                                     *)

\* In the exchange of the n-th dial, ReadFrom or WriteTo has returned an
\* error to the reader or to the writer.
HalfFailed(n) ==
    /\ exch.dials = n
    /\ exch.slot = "select"
    /\ exch.reader = "send" \/ exch.writer = "send"

\* C28: when a half of a peer fails, exchange returns, and unless the packet
\* conn is closed in between, the transient conn is closed, the slot's queue
\* goes back to dialLoop and dialContext is called again for the slot; and a
\* dial for the slot starts only with the queue that came back after the
\* transient conn of the dial before it was closed.
C28_FailedPeerIsRedialed ==
    /\ \A n \in 1..(MaxDials - 1) :
          HalfFailed(n) ~> (exch.closed \/ exch.dials > n)
    /\ \A n \in 1..MaxDials :
          HalfFailed(n) ~> (exch.slot = "token" /\ exch.connClosed)
    /\ [][exch'.dials /= exch.dials
          => /\ exch.slot = "token"
             /\ exch.dials > 0 => exch.connClosed]_vars

\* Both halves have failed at the same time: the reader and the writer are
\* each blocked in the send of their error, on the open packet conn.
C28_Witness ==
    /\ ~exch.closed
    /\ exch.slot = "select"
    /\ exch.reader = "send"
    /\ exch.writer = "send"

-----------------------------------------------------------------------------
(* C31.                                                                     *)

\* C31: once the conn is closed, by Close or by a dial error, no goroutine is
\* started that calls dialContext.
C31_NoDialAfterClose ==
    [][\A i \in Slots :
          (mux.closed /\ mux.peer[i] /= "dial") => mux'.peer[i] /= "dial"]_vars

-----------------------------------------------------------------------------
(* C32.                                                                     *)

\* C32: dataChan is closed at most once per session, also when the remote
\* peer opens more than one data channel on the peer connection of the
\* session: the process never dies in a second close(dataChan).
C32_DataChanClosedOnce == exit /= closeOfClosedChannel

----------------------------------------------------------------------------
(* The creation of peer connections by the proxy: makePeerConnectionFromOffer *)
(* for a session, and checkNATType with makeNewPeerConnection for the probe,  *)
(* one library call per step.                                                 *)

MaxRuns == 3

\* peerConnection: the operation that creates a peer connection.
\*   op    none, makePeerConnectionFromOffer, checkNATType
\*   at    the call the operation is about to make; ret: it has returned
\*   pc    the peer connection it created: none, open, closed
\*   ret   what it returned: none (running), ok (a peer connection, or no
\*         error), err (an error), nil (neither)
\*   nat   the NAT type checkNATType has set (NATUnknown: none)
\*   runs  number of operations started
NewPeerConnection ==
    [op |-> "none", at |-> "idle", pc |-> "none", ret |-> "none",
     nat |-> NATUnknown, runs |-> 0]

PcInit ==
    /\ ProxyAtRest
    /\ polled = <<>>
    /\ mux = <<>>
    /\ frame = <<>>
    /\ conn = <<>>
    /\ webrtcPeer = <<>>
    /\ exch = <<>>
    /\ peerConnection = NewPeerConnection
    /\ framed = <<>>
    /\ resp = <<>>

PcVarsUnchanged ==
    /\ ProxyVarsUnchanged
    /\ UNCHANGED <<polled, mux, frame, conn, webrtcPeer, exch, framed, resp>>

\* The operation is at the call named at.
pc_at(op, at) == peerConnection.op = op /\ peerConnection.at = at

\* The operation goes on to its next call.
pc_goto(at, pcNew) ==
    /\ peerConnection' = [peerConnection EXCEPT !.at = at, !.pc = pcNew]
    /\ PcVarsUnchanged

\* The operation returns.
pc_return(ret, pcNew) ==
    /\ peerConnection' = [peerConnection EXCEPT
                             !.at = "ret", !.pc = pcNew, !.ret = ret]
    /\ PcVarsUnchanged

\* A caller starts an operation.
pc_call(op, at) ==
    /\ peerConnection.at \in {"idle", "ret"}
    /\ peerConnection.runs < MaxRuns
    /\ peerConnection' = [peerConnection EXCEPT
                             !.op = op, !.at = at, !.pc = "none",
                             !.ret = "none", !.runs = @ + 1]
    /\ PcVarsUnchanged

\* runSession calls makePeerConnectionFromOffer.
runSession_makePeerConnectionFromOffer ==
    pc_call("makePeerConnectionFromOffer", "NewPeerConnection")

\* makePeerConnectionFromOffer: api.NewPeerConnection.
offer_NewPeerConnection ==
    /\ pc_at("makePeerConnectionFromOffer", "NewPeerConnection")
    /\ \/ pc_return("err", "none")
       \/ pc_goto("SetRemoteDescription", "open")

\* makePeerConnectionFromOffer: pc.SetRemoteDescription; on an error the peer
\* connection is closed.
offer_SetRemoteDescription ==
    /\ pc_at("makePeerConnectionFromOffer", "SetRemoteDescription")
    /\ \/ pc_return("err", "closed")
       \/ pc_goto("CreateAnswer", "open")

\* makePeerConnectionFromOffer: pc.CreateAnswer; on an error the peer
\* connection is closed.
offer_CreateAnswer ==
    /\ pc_at("makePeerConnectionFromOffer", "CreateAnswer")
    /\ \/ pc_return("err", "closed")
       \/ pc_goto("SetLocalDescription", "open")

\* makePeerConnectionFromOffer: pc.SetLocalDescription; on an error the peer
\* connection is closed and the result of Close is what is returned.
offer_SetLocalDescription ==
    /\ pc_at("makePeerConnectionFromOffer", "SetLocalDescription")
    /\ \/ \E closeErr \in BOOLEAN :
             pc_return(IF closeErr THEN "err" ELSE "nil", "closed")
       \/ pc_goto("done", "open")

\* makePeerConnectionFromOffer: candidate gathering is complete; an answer
\* without a candidate is an error, returned with the peer connection as it is.
offer_done ==
    /\ pc_at("makePeerConnectionFromOffer", "done")
    /\ \E candidate \in BOOLEAN :
          pc_return(IF candidate THEN "ok" ELSE "err", peerConnection.pc)

\* runSession closes the peer connection it was given.
runSession_pcClose ==
    /\ pc_at("makePeerConnectionFromOffer", "ret")
    /\ peerConnection.ret = "ok"
    /\ peerConnection.pc = "open"
    /\ pc_goto("ret", "closed")

\* Start or the periodic task calls checkNATType.
call_checkNATType == pc_call("checkNATType", "newSignalingServer")

\* checkNATType: newSignalingServer parses the probe URL.
checkNATType_newSignalingServer ==
    /\ pc_at("checkNATType", "newSignalingServer")
    /\ \/ pc_return("err", "none")
       \/ pc_goto("NewPeerConnection", "none")

\* makeNewPeerConnection: api.NewPeerConnection.
new_NewPeerConnection ==
    /\ pc_at("checkNATType", "NewPeerConnection")
    /\ \/ pc_goto("makeNewPeerConnection_err", "none")
       \/ pc_goto("CreateDataChannel", "open")

\* makeNewPeerConnection: pc.CreateDataChannel; on an error the error is
\* returned with the peer connection as it is.
new_CreateDataChannel ==
    /\ pc_at("checkNATType", "CreateDataChannel")
    /\ \/ pc_goto("makeNewPeerConnection_err", peerConnection.pc)
       \/ pc_goto("CreateOffer", "open")

\* makeNewPeerConnection: pc.CreateOffer; on an error the peer connection is
\* closed.
new_CreateOffer ==
    /\ pc_at("checkNATType", "CreateOffer")
    /\ \/ pc_goto("makeNewPeerConnection_err", "closed")
       \/ pc_goto("SetLocalDescription", "open")

\* makeNewPeerConnection: pc.SetLocalDescription; on an error the peer
\* connection is closed.
new_SetLocalDescription ==
    /\ pc_at("checkNATType", "SetLocalDescription")
    /\ \/ pc_goto("makeNewPeerConnection_err", "closed")
       \/ pc_goto("done", "open")

\* makeNewPeerConnection: candidate gathering is complete; an offer without a
\* candidate is an error, returned with the peer connection as it is.
new_done ==
    /\ pc_at("checkNATType", "done")
    /\ \/ pc_goto("makeNewPeerConnection_err", peerConnection.pc)
       \/ pc_goto("encode", "open")

\* checkNATType: makeNewPeerConnection returned an error.
checkNATType_makeNewPeerConnection ==
    /\ pc_at("checkNATType", "makeNewPeerConnection_err")
    /\ pc_return("err", peerConnection.pc)

\* A step of checkNATType between makeNewPeerConnection and the wait: on an
\* error the error is returned with the peer connection as it is.
checkNATType_step(at, next) ==
    /\ pc_at("checkNATType", at)
    /\ \/ pc_return("err", peerConnection.pc)
       \/ pc_goto(next, peerConnection.pc)

\* checkNATType: SerializeSessionDescription and EncodePollResponse.
checkNATType_encode == checkNATType_step("encode", "Post")

\* checkNATType: probe.Post.
checkNATType_Post == checkNATType_step("Post", "decode")

\* checkNATType: DecodeAnswerRequest and DeserializeSessionDescription.
checkNATType_decode == checkNATType_step("decode", "SetRemoteDescription")

\* checkNATType: pc.SetRemoteDescription.
checkNATType_SetRemoteDescription ==
    checkNATType_step("SetRemoteDescription", "select")

\* checkNATType: the probe's data channel opens or the timer fires.
checkNATType_select ==
    /\ pc_at("checkNATType", "select")
    /\ \E o \in {"opened", "timeout"} :
          peerConnection' =
              [peerConnection EXCEPT
                  !.at = "Close",
                  !.nat = checkNATType(o, peerConnection.nat)]
    /\ PcVarsUnchanged

\* checkNATType: pc.Close, and the return without an error.
checkNATType_Close ==
    /\ pc_at("checkNATType", "Close")
    /\ pc_return("ok", "closed")

PcNext ==
    \/ runSession_makePeerConnectionFromOffer
    \/ offer_NewPeerConnection
    \/ offer_SetRemoteDescription
    \/ offer_CreateAnswer
    \/ offer_SetLocalDescription
    \/ offer_done
    \/ runSession_pcClose
    \/ call_checkNATType
    \/ checkNATType_newSignalingServer
    \/ new_NewPeerConnection
    \/ new_CreateDataChannel
    \/ new_CreateOffer
    \/ new_SetLocalDescription
    \/ new_done
    \/ checkNATType_makeNewPeerConnection
    \/ checkNATType_encode
    \/ checkNATType_Post
    \/ checkNATType_decode
    \/ checkNATType_SetRemoteDescription
    \/ checkNATType_select
    \/ checkNATType_Close

PcSpec == PcInit /\ [][PcNext]_vars

\* C33: when makePeerConnectionFromOffer, makeNewPeerConnection or
\* checkNATType returns an error, the peer connection it created is not open:
\* it was never created or it has been closed.
C33_ClosedBeforeError ==
    LET returnedError ==
            \/ peerConnection.at = "ret" /\ peerConnection.ret = "err"
            \/ peerConnection.at = "makeNewPeerConnection_err"
    IN  returnedError => peerConnection.pc /= "open"

----------------------------------------------------------------------------
(* C34.                                                                    *)

\* The client's Read takes a message from the transport.
ClientReadStep ==
    /\ frame.down /= <<>>
    /\ frame'.down = <<>>
    /\ frame'.dials = frame.dials

\* The client's Read returns an error of the transport.
ClientReadFails ==
    /\ frame'.dials = frame.dials
    /\ frame'.cr /= frame.cr
    /\ frame'.cr.err /= nilErr

\* C34: the client's Read of a packet whose first byte is not 0xff returns
\* (0, nil) and leaves the state as it is; of a packet 0xff followed by P it
\* returns P, of length len(P), and the state is Acknowledged after it; an
\* error of the transport is returned with n = 0 and the state as it is.
C34_ClientRead ==
    [][/\ ClientReadStep
          => LET m == Head(frame.down)
             IN  IF m[1] = B_ff
                 THEN /\ frame'.cr = [n |-> Len(m) - 1, err |-> nilErr,
                                      p |-> Tail(m)]
                      /\ frame'.state =
                             packetClientIDConn_StateConnectionIDAcknowledged
                 ELSE /\ frame'.cr.n = 0
                      /\ frame'.cr.err = nilErr
                      /\ frame'.state = frame.state
       /\ ClientReadFails
          => /\ frame'.cr.n = 0
             /\ frame'.state = frame.state]_vars

\* The client has read the payload <<0xff>> from a packet of the server.
C34_Witness ==
    /\ frame.cr = [n |-> 1, err |-> nilErr, p |-> <<B_ff>>]
    /\ frame.state = packetClientIDConn_StateConnectionIDAcknowledged
    /\ frame.down = <<>>

----------------------------------------------------------------------------
(* C35.                                                                    *)

\* C35: the server's Read decodes by the leading byte of the message: on 0xfe
\* it records the 8 bytes that follow as the client ID, marks the ID as
\* received and returns the bytes after them; on 0xff it returns the bytes
\* after the leading byte and leaves the recorded client ID as it is; on any
\* other leading byte it returns a read of length zero and changes nothing.
C35_ServerRead ==
    [][ServerReadStep
       => LET m == Head(frame.up).msg
          IN  /\ frame'.sr.err = nilErr
              /\ frame'.sr.b0 = m[1]
              /\ CASE m[1] = B_fe ->
                        /\ frame'.connID = SubSeq(m, 2, 9)
                        /\ frame'.clientIDReceived
                        /\ frame'.sr.n = Len(m) - 9
                        /\ frame'.sr.p = SubSeq(m, 10, Len(m))
                   [] m[1] = B_ff ->
                        /\ frame'.connID = frame.connID
                        /\ frame'.clientIDReceived = frame.clientIDReceived
                        /\ frame'.sr.n = Len(m) - 1
                        /\ frame'.sr.p = Tail(m)
                   [] OTHER ->
                        /\ frame'.connID = frame.connID
                        /\ frame'.clientIDReceived = frame.clientIDReceived
                        /\ frame'.sr.n = 0]_vars

\* The server has read a packet with the client ID of 0xff bytes and the
\* payload <<0xff>>.
C35_Witness ==
    /\ frame.sr = [n |-> 1, err |-> nilErr, p |-> <<B_ff>>, b0 |-> B_fe]
    /\ frame.clientIDReceived
    /\ frame.connID = [i \in 1..8 |-> B_ff]
    /\ frame.up = <<>>

----------------------------------------------------------------------------
(* Read of the two framed conns with the buffer of the caller: the          *)
(* underlying conn puts a message at the front of the buffer and reports    *)
(* its length; the bytes after it are those of earlier reads.               *)

BufLen == 10

MaxReads == 3

\* The messages the underlying conn delivers: empty, shorter than a client
\* ID, with a client ID, without one, and of neither framed conn.
Messages ==
    {<<>>, <<B_fe>>, <<B_fe, 1, 2>>, <<B_fe>> \o [i \in 1..8 |-> 3] \o <<4>>,
     <<B_ff>>, <<B_ff, B_fe>>, <<0>>}

\* framed: a framed conn and the buffer its caller reads into.
\*   side      server (packetConnIDConnServer) or client (packetClientIDConn)
\*   buf       the caller's buffer
\*   len       length of the message of the last read
\*   n, err    what the last Read returned
\*   panic     the last Read ended in a run-time panic
\*   changed   the last Read changed the framed conn
\*   connID, clientIDReceived   server: the recorded client ID
\*   state     client: c.state
\*   reads     number of reads so far
newFramed(side) ==
    [side |-> side, buf |-> [i \in 1..BufLen |-> 0], len |-> 0, n |-> 0,
     err |-> nilErr, panic |-> FALSE, changed |-> FALSE,
     connID |-> [i \in 1..8 |-> 0], clientIDReceived |-> FALSE,
     state |-> packetClientIDConn_StateNew, reads |-> 0]

ReadInit ==
    /\ ProxyAtRest
    /\ polled = <<>>
    /\ mux = <<>>
    /\ frame = <<>>
    /\ conn = <<>>
    /\ webrtcPeer = <<>>
    /\ exch = <<>>
    /\ peerConnection = <<>>
    /\ resp = <<>>
    /\ \E side \in {"server", "client"} : framed = newFramed(side)

ReadVarsUnchanged ==
    /\ ProxyVarsUnchanged
    /\ UNCHANGED <<polled, mux, frame, conn, webrtcPeer, exch, peerConnection,
                resp>>

\* The underlying conn's Read of the message m into buf: the message is at
\* the front, the bytes after it are as they were.
Conn_Read(buf, m) == m \o SubSeq(buf, Len(m) + 1, Len(buf))

\* copy(buf, buf[from:to]): the bytes move to the front, the others stay.
copy(buf, from, to) ==
    SubSeq(buf, from + 1, to) \o SubSeq(buf, to - from + 1, Len(buf))

\* packetConnIDConnServer.Read after the Conn's Read put n bytes into buf.
Server_Read_buf(f, buf, n) ==
    IF buf[1] = B_fe
    THEN [f EXCEPT !.clientIDReceived = TRUE, !.connID = SubSeq(buf, 2, 9),
                   !.buf = copy(buf, 9, Len(buf)), !.n = n - 9]
    ELSE IF buf[1] = B_ff
    THEN [f EXCEPT !.buf = copy(buf, 1, Len(buf)), !.n = n - 1]
    ELSE [f EXCEPT !.buf = buf, !.n = 0]

\* packetClientIDConn.Read after the transport's Read put n bytes into p;
\* the slice p[1:n] of an empty message is out of range.
Client_Read_buf(f, buf, n) ==
    IF buf[1] = B_ff
    THEN IF n < 1
         THEN [f EXCEPT !.state =
                           packetClientIDConn_StateConnectionIDAcknowledged,
                        !.buf = buf, !.n = 0, !.panic = TRUE]
         ELSE [f EXCEPT !.state =
                           packetClientIDConn_StateConnectionIDAcknowledged,
                        !.buf = copy(buf, 1, n), !.n = n - 1]
    ELSE [f EXCEPT !.buf = buf, !.n = 0]

\* The framed conn as the caller holds it.
FramedConn(f) == <<f.connID, f.clientIDReceived, f.state>>

\* Read of a framed conn: the underlying conn delivers the message m.
Framed_Read(m) ==
    /\ ~framed.panic
    /\ framed.reads < MaxReads
    /\ LET buf == Conn_Read(framed.buf, m)
           f   == [framed EXCEPT !.len = Len(m), !.err = nilErr,
                                 !.reads = @ + 1]
           r   == IF framed.side = "server"
                  THEN Server_Read_buf(f, buf, Len(m))
                  ELSE Client_Read_buf(f, buf, Len(m))
       IN  framed' = [r EXCEPT !.changed = FramedConn(r) /= FramedConn(framed)]
    /\ ReadVarsUnchanged

\* Read of a framed conn: the underlying conn returns an error.
Framed_Read_err ==
    /\ ~framed.panic
    /\ framed.reads < MaxReads
    /\ framed' = [framed EXCEPT !.len = 0, !.n = 0, !.err = transportErr,
                                !.changed = FALSE, !.reads = @ + 1]
    /\ ReadVarsUnchanged

ReadNext ==
    \/ \E m \in Messages : Framed_Read(m)
    \/ Framed_Read_err

ReadSpec == ReadInit /\ [][ReadNext]_vars

\* C36: for every message the underlying conn delivers, the length that the
\* framed Read returns is at least 0 and at most the length of the message,
\* the Read does not panic, and the Read of an empty message, which has no
\* leading byte, changes nothing.
C36_ReadLengthInRange ==
    /\ ~framed.panic
    /\ framed.n >= 0
    /\ framed.n <= framed.len
    /\ (framed.err = nilErr /\ framed.len = 0) => ~framed.changed

----------------------------------------------------------------------------
(* C37.                                                                    *)

\* The server's Write hands a message to the Conn.
ServerWriteStep ==
    /\ frame.down = <<>>
    /\ frame'.down /= <<>>
    /\ frame'.sw /= frame.sw \/ frame'.sw.err = nilErr
    /\ Head(frame'.down)[1] = B_ff

\* A Write of the server or of the client returns an error of the transport.
WriteFails ==
    \/ frame'.sw /= frame.sw /\ frame'.sw.err /= nilErr
    \/ frame'.cw /= frame.cw /\ frame'.cw.err /= nilErr

\* C37: the server's Write of the payload P sends the one message 0xff, P
\* and, when it succeeds, reports len(P) bytes written, as the client's Write
\* does; on an error of the transport a Write reports 0 and the error, and
\* no message is sent.
C37_WriteReportsPayloadLength ==
    [][/\ ServerWriteStep
          => frame'.sw = [n |-> Len(Head(frame'.down)) - 1, err |-> nilErr]
       /\ ClientWriteStep
          => frame'.cw = [n |-> Len(Head(frame'.up).p), err |-> nilErr]
       /\ WriteFails
          => /\ frame'.sw.err /= nilErr => frame'.sw.n = 0
             /\ frame'.cw.err /= nilErr => frame'.cw.n = 0
             /\ frame'.down = frame.down
             /\ frame'.up = frame.up]_vars

----------------------------------------------------------------------------
(* SignalingServer.Post and limitedRead: the response of the remote end and *)
(* what the caller gets. A body is its bytes 1..len; a byte slice of it is  *)
(* the pair of its bounds.                                                  *)

readLimit == 100000

MaxOver == 2

http_StatusOK == 200

\* The lengths within MaxOver of k.
Around(k) == {n \in (k - MaxOver)..(k + MaxOver) : n >= 0}

Limits == {0, 1, readLimit}

BodyLens == UNION {Around(l) : l \in Limits}

\* The status of a response.
Statuses == {http_StatusOK, 204, 404, 500}

\* After how many bytes the body's Read returns an error; a body that is
\* shorter than that ends before.
ReadFails == {0, 1, readLimit, readLimit + MaxOver + 1}

io_ErrUnexpectedEOF == <<"unexpected EOF">>

\* The bytes lo+1..hi of the body: the slice body[lo:hi].
slice(lo, hi) == [lo |-> lo, hi |-> hi]

nilSlice == <<>>

Min(a, b) == IF a < b THEN a ELSE b

\* io.ReadAll of an io.LimitedReader of N bytes on a body of len bytes whose
\* Read fails after fail bytes: the bytes read and the error.
ReadAll_LimitedReader(len, fail, N) ==
    IF fail < len /\ fail < N
    THEN [p |-> slice(0, fail), err |-> transportErr]
    ELSE [p |-> slice(0, Min(len, N)), err |-> nilErr]

limitedRead_noExtra(len, fail, limit) ==
    LET r == ReadAll_LimitedReader(len, fail, limit)
    IN  IF r.err /= nilErr
        THEN r
        ELSE IF r.p.hi = limit + 1
        THEN [p |-> slice(0, limit), err |-> io_ErrUnexpectedEOF]
        ELSE r

\* limitedRead of a body of len bytes whose Read fails after fail bytes.
limitedRead(len, fail, limit) ==
    LET r == ReadAll_LimitedReader(len, fail, limit + 1)
    IN  IF r.err /= nilErr
        THEN r
        ELSE IF r.p.hi = limit + 1
        THEN [p |-> slice(0, limit), err |-> io_ErrUnexpectedEOF]
        ELSE r

\* SignalingServer.Post: RoundTrip returns an error (ok is false) or a
\* response with this status and body.
Post(ok, status, len, fail) ==
    IF ~ok
    THEN [p |-> nilSlice, err |-> transportErr]
    ELSE IF status /= http_StatusOK
    THEN [p |-> nilSlice, err |-> <<"remote returned status code", status>>]
    ELSE limitedRead(len, fail, readLimit)

\* resp: a response, the limit of a call of limitedRead, and what the call
\* made (op: none, limitedRead, Post) returned.
PostInit ==
    /\ ProxyAtRest
    /\ polled = <<>>
    /\ mux = <<>>
    /\ frame = <<>>
    /\ conn = <<>>
    /\ webrtcPeer = <<>>
    /\ exch = <<>>
    /\ peerConnection = <<>>
    /\ framed = <<>>
    /\ \E ok \in BOOLEAN, status \in Statuses, len \in BodyLens,
          fail \in ReadFails, limit \in Limits :
          resp = [ok |-> ok, status |-> status, len |-> len, fail |-> fail,
                  limit |-> limit, op |-> "none", p |-> nilSlice,
                  err |-> nilErr]

PostVarsUnchanged ==
    /\ ProxyVarsUnchanged
    /\ UNCHANGED <<polled, mux, frame, conn, webrtcPeer, exch, peerConnection,
                   framed>>

\* limitedRead is called on the body with resp.limit.
limitedRead_call ==
    /\ resp.op = "none"
    /\ LET r == limitedRead(resp.len, resp.fail, resp.limit)
       IN  resp' = [resp EXCEPT !.op = "limitedRead", !.p = r.p,
                                !.err = r.err]
    /\ PostVarsUnchanged

\* Post is called and gets the response.
Post_call ==
    /\ resp.op = "none"
    /\ LET r == Post(resp.ok, resp.status, resp.len, resp.fail)
       IN  resp' = [resp EXCEPT !.op = "Post", !.p = r.p, !.err = r.err]
    /\ PostVarsUnchanged

PostNext ==
    \/ limitedRead_call
    \/ Post_call

PostSpec == PostInit /\ [][PostNext]_vars

----------------------------------------------------------------------------
(* C38.                                                                    *)

\* The body's Read delivers every byte that a read with this limit asks for.
BodyDelivered(limit) ==
    resp.fail >= resp.len \/ resp.fail > limit

\* What the claim says limitedRead returns for the body and the limit.
C38_Limited(limit) ==
    BodyDelivered(limit)
        => IF resp.len <= limit
           THEN resp.p = slice(0, resp.len) /\ resp.err = nilErr
           ELSE resp.p = slice(0, limit) /\ resp.err = io_ErrUnexpectedEOF

\* C38: limitedRead with the limit L returns the whole body and no error for
\* a body of at most L bytes, and the first L bytes with the error
\* "unexpected EOF" for a longer one; Post returns no body and an error with
\* the status code for every response whose status is not 200, and
\* limitedRead of the body with readLimit for status 200.
C38_LimitedReadAndPost ==
    /\ resp.op = "limitedRead" => C38_Limited(resp.limit)
    /\ resp.op = "Post"
          => IF ~resp.ok
             THEN resp.p = nilSlice /\ resp.err /= nilErr
             ELSE IF resp.status /= http_StatusOK
             THEN /\ resp.p = nilSlice
                  /\ resp.err = <<"remote returned status code", resp.status>>
             ELSE C38_Limited(readLimit)

\* Post got a body one byte longer than readLimit and returned its first
\* readLimit bytes with "unexpected EOF".
C38_Witness ==
    /\ resp.op = "Post"
    /\ resp.ok
    /\ resp.status = http_StatusOK
    /\ resp.len = readLimit + 1
    /\ resp.p = slice(0, readLimit)
    /\ resp.err = io_ErrUnexpectedEOF

----------------------------------------------------------------------------
(* C39.                                                                    *)

\* The bytes of the Writes from..to, in the order they were written.
WrittenBytes(from, to) == [i \in 1..(to - from + 1) |-> from + i - 1]

\* C39: the remote peer gets the bytes in the order they were written and
\* without a gap: what was sent is always the first bytes written; before the
\* OnOpen callback nothing is sent and every byte written is in the buffer,
\* in order; and while the channel is open and is the transport the buffer is
\* empty and every byte written has been sent.
C39_WriteOrder ==
    /\ webrtcPeer.sent = WrittenBytes(1, Len(webrtcPeer.sent))
    /\ webrtcPeer.onopen /= "done"
       => /\ webrtcPeer.sent = <<>>
          /\ webrtcPeer.buffer = WrittenBytes(1, webrtcPeer.written)
    /\ (webrtcPeer.transport /\ webrtcPeer.dc = "open")
       => /\ webrtcPeer.buffer = <<>>
          /\ webrtcPeer.sent = WrittenBytes(1, webrtcPeer.written)

\* A byte written before the channel opened and one written after it have
\* both been sent, and the channel is still the transport.
C39_Witness ==
    /\ webrtcPeer.transport
    /\ webrtcPeer.dc = "open"
    /\ webrtcPeer.written = 2
    /\ webrtcPeer.sent = <<1, 2>>
    /\ webrtcPeer.buffer = <<>>
====
